---- MODULE Spec2Model ----
(***************************************************************************)
(* State-machine model of the auction server's Store                       *)
(* (auction-server/src/state.rs) and of its construction and supervision   *)
(* (auction-server/src/server.rs).                                         *)
(*                                                                         *)
(* The durable tables (bid, auction, access_token) and the in-memory       *)
(* indices (bids, submitted_auctions, access_tokens) are separate          *)
(* variables.  Every Store operation is split at its suspension points: a  *)
(* database statement is one atomic step, the in-memory mutation under the *)
(* index's write lock is another, the send on the event channel a third.   *)
(* Option<T> values are sequences of length at most one.                   *)
(***************************************************************************)
EXTENDS Integers, Sequences, FiniteSets, TLC

VARIABLES
    db_bid,              \* table bid: row i is the bid with id i
    db_auction,          \* table auction: row i is the auction with id i
    bids,                \* Store.bids: AuctionKey -> Vec<SimulatedBid>
    submitted_auctions,  \* Store.submitted_auctions: ChainId -> Vec<Auction>
    events,              \* what was sent on Store.event_sender, in order
    task,                \* the Store call each task is suspended in
    loop,                \* where each submission or tracker task is in its tick
    auction_lock,        \* the AuctionKeys whose per-key lock is held
    db_access_token,     \* table access_token: row i is the i-th token created
    access_tokens,       \* Store.access_tokens: token -> Profile
    token_task,          \* the access-token call each task is suspended in
    lock_entries,        \* Store.auction_lock: AuctionKey -> AuctionLock
    mutexes,             \* the AuctionLocks created: who holds each Mutex
    lock_task,           \* the AuctionLock each task has, and what it does with it
    db_opportunity,      \* table opportunity: row i is the opportunity with id i
    opportunities,       \* OpportunityStore.opportunities: PermissionKey -> Vec<Opportunity>
    opportunity_task,    \* the opportunity call each task is suspended in
    handler,             \* where each fault_tolerant_handler is in its loop
    SHOULD_EXIT,         \* the static exit flag
    timer,               \* the tokio timer, in milliseconds
    outcome              \* what start_server returned, once it has

storeVars == <<db_bid, db_auction, bids, submitted_auctions, events, task>>
loopVars == <<loop, auction_lock>>
tokenVars == <<db_access_token, access_tokens, token_task>>
lockVars == <<lock_entries, mutexes, lock_task>>
opportunityVars == <<db_opportunity, opportunities, opportunity_task>>
supervisorVars == <<handler, SHOULD_EXIT, timer, outcome>>
otherVars == <<opportunityVars, supervisorVars>>
restVars == <<lockVars, otherVars>>
vars == <<storeVars, loopVars, tokenVars, restVars>>

----------------------------------------------------------------------------
(* Bounds of the model.                                                    *)

MaxBids == 2          \* bids added in a run of the server's loops
MaxAuctions == 2      \* auctions created in a run of the server's loops
MaxCallerBids == 1    \* bids added while two callers drive the Store
MaxCallerAuctions == 1
MaxTokens == 2        \* rows of table access_token
MaxLocks == 2         \* AuctionLocks created
MaxOpportunities == 2 \* rows of table opportunity
MaxSpawns == 2        \* times a handler spawns its loop
MaxTime == 1500       \* milliseconds the timer runs
MaxIndexedBids == 3   \* bids added while one caller works on the bids index
MaxSubmits == 2       \* entries of submitted_auctions while callers drive the Store
MaxIndex == 0         \* the largest bundle index a caller passes

PermissionKeys == {"pk1", "pk2"}
ChainIds == {"c1"}
AuctionKeys == PermissionKeys \X ChainIds
TxHashes == <<"0xAA", "0xBB", "0xCC">>
BundleIndices == 0..MaxIndex
ApiTasks == {"t1", "t2"}
SubTasks == {"s1", "s2"}
TrkTasks == {"r1"}
LoopTasks == SubTasks \cup TrkTasks
Tasks == ApiTasks \cup LoopTasks
TokenTasks == {"a1", "a2"}
Profiles == {"p1"}
LockTasks == {"k1", "k2"}
OpportunityTasks == {"o1", "o2"}
OpportunityRemovalReasons == {"expired", "invalid"}
Handlers == {"submission loop", "tracker loop", "start api"}

----------------------------------------------------------------------------
(* Option<T>.                                                              *)

None == <<>>
Some(x) == <<x>>
IsSome(o) == o # <<>>
Unwrap(o) == o[1]

(* HashMap<K, V> as a function whose domain is the set of present keys.    *)
MapPut(m, k, v) == [x \in (DOMAIN m) \cup {k} |-> IF x = k THEN v ELSE m[x]]
MapRemove(m, k) == [x \in (DOMAIN m) \ {k} |-> m[x]]
EmptyMap == <<>>

----------------------------------------------------------------------------
(* BidStatus, the in-memory status of a bid.                               *)

Pending == [kind |-> "Pending", result |-> None, index |-> None]
Submitted(r, i) == [kind |-> "Submitted", result |-> Some(r), index |-> Some(i)]
Won(r, i) == [kind |-> "Won", result |-> Some(r), index |-> Some(i)]
Lost(r, i) == [kind |-> "Lost", result |-> r, index |-> i]

(* impl sqlx::Encode for BidStatus: the value of the bid_status column.    *)
encode_by_ref(status) ==
    CASE status.kind = "Pending" -> "pending"
      [] status.kind = "Submitted" -> "submitted"
      [] status.kind = "Lost" -> "lost"
      [] status.kind = "Won" -> "won"

(* SimulatedBid, reduced to the core fields the Store reads.               *)
SimulatedBid(id, key, status) == [id |-> id, key |-> key, status |-> status]
get_auction_key(bid) == bid.key
update_status(bid, status) == [bid EXCEPT !.status = status]

(* The statuses a caller may request.                                      *)
BidStatuses(hashes) ==
    {Pending}
    \cup {Submitted(r, i) : r \in hashes, i \in BundleIndices}
    \cup {Won(r, i) : r \in hashes, i \in BundleIndices}
    \cup {Lost(r, i) : r \in {None} \cup {Some(h) : h \in hashes},
                       i \in {None} \cup {Some(j) : j \in BundleIndices}}

----------------------------------------------------------------------------
(* The clock.  OffsetDateTime::now_utc() is read as the number of durable  *)
(* writes made so far: a call that starts after a write has committed      *)
(* reads a later time than the one that write stored.                      *)

now_utc ==
    1 + Len(db_bid) + Len(db_auction)
      + Cardinality({i \in 1..Len(db_auction) : IsSome(db_auction[i].submission_time)})
      + Cardinality({i \in 1..Len(db_auction) : IsSome(db_auction[i].conclusion_time)})
      + Len(db_opportunity)
      + Cardinality({i \in 1..Len(db_opportunity) : IsSome(db_opportunity[i].removal_time)})

----------------------------------------------------------------------------
(* Task frames: the Store call a task is inside, with its arguments.       *)

NoBid == [id |-> 0, key |-> <<"", "">>, status |-> Pending]
Frame(pc, bid, status, auction, rows, ret) ==
    [pc |-> pc, bid |-> bid, status |-> status, auction |-> auction,
     rows |-> rows, ret |-> ret]
Idle(ret) == Frame("idle", NoBid, Pending, None, 0, ret)

IsIdle(t) == task[t].pc = "idle"
Return(t, ret) == task' = [task EXCEPT ![t] = Idle(ret)]

----------------------------------------------------------------------------
(* Rows.                                                                   *)

(* models::Auction.  chain_type is fixed by the caller's chain and never   *)
(* read by the Store; it is left out.                                      *)
Auction(id, key, creation_time, bid_collection_time) ==
    [id |-> id, key |-> key, creation_time |-> creation_time,
     conclusion_time |-> None, tx_hash |-> None,
     bid_collection_time |-> Some(bid_collection_time), submission_time |-> None]

(* A row of table bid: the columns the Store updates, and the key.         *)
BidRow(key, status, auction_id, bundle_index) ==
    [key |-> key, status |-> status, auction_id |-> auction_id,
     bundle_index |-> bundle_index]

BidIds == 1..Len(db_bid)
AuctionIds == 1..Len(db_auction)

(* TryFrom<SimulatedBid> for (BidMetadata, ChainType): the bundle_index    *)
(* written with a new bid.                                                 *)
metadata_bundle_index(status) ==
    CASE status.kind = "Pending" -> None
      [] status.kind = "Lost" -> status.index
      [] status.kind = "Submitted" -> status.index
      [] status.kind = "Won" -> status.index

----------------------------------------------------------------------------
(* Store::add_bid.                                                         *)

(* SimulatedBidCoreFields::new: a new bid is Pending, its id is fresh.     *)
new_bid(key) == SimulatedBid(Len(db_bid) + 1, key, Pending)

(* INSERT INTO bid; a database error returns TemporarilyUnavailable.       *)
add_bid_insert(t, key, ok) ==
    LET bid == new_bid(key) IN
    /\ IsIdle(t)
    /\ IF ok
       THEN /\ db_bid' = Append(db_bid,
                   BidRow(key, encode_by_ref(bid.status), None,
                          metadata_bundle_index(bid.status)))
            /\ task' = [task EXCEPT ![t] = Frame("add_bid_push", bid, bid.status, None, 1, "none")]
       ELSE /\ db_bid' = db_bid
            /\ Return(t, "TemporarilyUnavailable")
    /\ UNCHANGED <<db_auction, bids, submitted_auctions, events>>

(* bids.write().entry(key).or_insert_with(Vec::new).push(bid)              *)
push_bid(index, bid) ==
    LET key == get_auction_key(bid)
        old == IF key \in DOMAIN index THEN index[key] ELSE <<>>
    IN MapPut(index, key, Append(old, bid))

add_bid_push(t) ==
    /\ task[t].pc = "add_bid_push"
    /\ bids' = push_bid(bids, task[t].bid)
    /\ task' = [task EXCEPT ![t].pc = "add_bid_send"]
    /\ UNCHANGED <<db_bid, db_auction, submitted_auctions, events>>

broadcast_status_update_twice(id, bid_status) ==
    events' = events \o <<[id |-> id, bid_status |-> bid_status],
                          [id |-> id, bid_status |-> bid_status]>>

(* broadcast_status_update: one BidStatusWithId on the channel.            *)
broadcast_status_update(id, bid_status) ==
    events' = Append(events, [id |-> id, bid_status |-> bid_status])

add_bid_send(t) ==
    /\ task[t].pc = "add_bid_send"
    /\ broadcast_status_update(task[t].bid.id, task[t].bid.status)
    /\ Return(t, "Ok")
    /\ UNCHANGED <<db_bid, db_auction, bids, submitted_auctions>>

----------------------------------------------------------------------------
(* Store::remove_bid and Store::update_bid on the bids index.              *)

remove_bid_swapping(index, bid) ==
    LET key == get_auction_key(bid) IN
    IF key \in DOMAIN index
    THEN LET kept == SelectSeq(index[key], LAMBDA b : b.id # bid.id) IN
         IF kept = <<>> THEN MapRemove(index, key)
         ELSE MapPut(index, key, [i \in 1..Len(kept) |-> kept[Len(kept) + 1 - i]])
    ELSE index

remove_bid_keeping_entry(index, bid) ==
    LET key == get_auction_key(bid) IN
    IF key \in DOMAIN index
    THEN MapPut(index, key, SelectSeq(index[key], LAMBDA b : b.id # bid.id))
    ELSE index

remove_bid(index, bid) ==
    LET key == get_auction_key(bid) IN
    IF key \in DOMAIN index
    THEN LET kept == SelectSeq(index[key], LAMBDA b : b.id # bid.id) IN
         IF kept = <<>> THEN MapRemove(index, key) ELSE MapPut(index, key, kept)
    ELSE index

update_bid_or_insert(index, bid) ==
    LET key == get_auction_key(bid)
        old == IF key \in DOMAIN index THEN index[key] ELSE <<>>
        found == {i \in 1..Len(old) : old[i].id = bid.id} IN
    IF found # {}
    THEN MapPut(index, key, [i \in 1..Len(old) |-> IF i \in found THEN bid ELSE old[i]])
    ELSE MapPut(index, key, Append(old, bid))

update_bid(index, bid) ==
    LET key == get_auction_key(bid) IN
    IF key \in DOMAIN index
    THEN LET found == {i \in 1..Len(index[key]) : index[key][i].id = bid.id} IN
         IF found # {}
         THEN LET position == CHOOSE i \in found : \A j \in found : i <= j IN
              MapPut(index, key, [index[key] EXCEPT ![position] = bid])
         ELSE index
    ELSE index

----------------------------------------------------------------------------
(* Store::broadcast_bid_status_and_update.                                 *)

(* The guarded UPDATE of each arm: the status the row must have, and the   *)
(* columns SET (None: the column is not in the SET list).                  *)
BidUpdate(where_status, status, auction_id, bundle_index) ==
    [where_status |-> where_status, status |-> status,
     auction_id |-> auction_id, bundle_index |-> bundle_index]

submitted_arm_keeps_status(updated_status, auction) ==
    BidUpdate("pending", "pending", Some(auction.id), updated_status.index)

submitted_arm_without_auction_id(updated_status, auction) ==
    BidUpdate("pending", encode_by_ref(updated_status), None, updated_status.index)

(* BidStatus::Submitted, with an auction.                                  *)
submitted_arm_update(updated_status, auction) ==
    BidUpdate("pending", encode_by_ref(updated_status),
              Some(auction.id), updated_status.index)

(* BidStatus::Lost: with an auction and an index, with an auction only,    *)
(* without an auction.                                                     *)
lost_arm_update(updated_status, auction) ==
    IF IsSome(auction)
    THEN IF IsSome(updated_status.index)
         THEN BidUpdate("submitted", encode_by_ref(updated_status),
                        Some(Unwrap(auction).id), updated_status.index)
         ELSE BidUpdate("pending", encode_by_ref(updated_status),
                        Some(Unwrap(auction).id), None)
    ELSE BidUpdate("pending", encode_by_ref(updated_status), None, None)

won_arm_where_pending(updated_status) ==
    BidUpdate("pending", encode_by_ref(updated_status), None, updated_status.index)

(* BidStatus::Won.                                                         *)
won_arm_update(updated_status) ==
    BidUpdate("submitted", encode_by_ref(updated_status), None, updated_status.index)

bid_update_statement(updated_status, auction) ==
    CASE updated_status.kind = "Submitted" -> submitted_arm_update(updated_status, Unwrap(auction))
      [] updated_status.kind = "Lost" -> lost_arm_update(updated_status, auction)
      [] updated_status.kind = "Won" -> won_arm_update(updated_status)

(* UPDATE bid SET ... WHERE id = $id AND status = $where_status.           *)
rows_matched(table, id, stmt) ==
    IF id \in 1..Len(table) /\ table[id].status = stmt.where_status THEN 1 ELSE 0

execute_bid_update_any_id(table, id, stmt) ==
    [i \in 1..Len(table) |->
        IF table[i].status # stmt.where_status THEN table[i]
        ELSE [table[i] EXCEPT
                !.status = stmt.status,
                !.auction_id = IF IsSome(stmt.auction_id) THEN stmt.auction_id ELSE @,
                !.bundle_index = IF IsSome(stmt.bundle_index) THEN stmt.bundle_index ELSE @]]

execute_bid_update_setting_every_column(table, id, stmt) ==
    IF rows_matched(table, id, stmt) = 0 THEN table
    ELSE [table EXCEPT ![id] =
            [@ EXCEPT !.status = stmt.status,
                      !.auction_id = stmt.auction_id,
                      !.bundle_index = stmt.bundle_index]]

execute_bid_update(table, id, stmt) ==
    IF rows_matched(table, id, stmt) = 0 THEN table
    ELSE [table EXCEPT ![id] =
            [@ EXCEPT !.status = stmt.status,
                      !.auction_id = IF IsSome(stmt.auction_id) THEN stmt.auction_id ELSE @,
                      !.bundle_index = IF IsSome(stmt.bundle_index) THEN stmt.bundle_index ELSE @]]

(* The early returns: Pending is refused, Submitted needs an auction.      *)
bid_update_refused(updated_status, auction) ==
    \/ updated_status.kind = "Pending"
    \/ updated_status.kind = "Submitted" /\ ~IsSome(auction)

(* What the call returns without a row written: the error of the Pending  *)
(* arm, or the other error (no auction for Submitted, the database).       *)
bid_update_error(updated_status) ==
    IF updated_status.kind = "Pending" THEN "Err(cannot remain pending)" ELSE "Err"

(* The in-memory step of each arm: update_bid (Submitted), remove_bid      *)
(* (Lost, Won).                                                            *)
index_after_update(index, bid, updated_status) ==
    IF updated_status.kind = "Submitted"
    THEN update_bid(index, update_status(bid, updated_status))
    ELSE remove_bid(index, bid)

broadcast_bid_status_and_update_execute_any_status(t, bid, updated_status, auction, ok) ==
    /\ IsIdle(t)
    /\ IF (updated_status.kind = "Submitted" /\ ~IsSome(auction)) \/ ~ok
       THEN /\ db_bid' = db_bid
            /\ Return(t, "Err")
       ELSE LET stmt == IF updated_status.kind = "Pending"
                        THEN BidUpdate("pending", "pending", None, None)
                        ELSE bid_update_statement(updated_status, auction) IN
            /\ db_bid' = execute_bid_update(db_bid, bid.id, stmt)
            /\ task' = [task EXCEPT ![t] =
                  Frame("bbsu_index", bid, updated_status, auction,
                        rows_matched(db_bid, bid.id, stmt), "none")]
    /\ UNCHANGED <<db_auction, bids, submitted_auctions, events>>

broadcast_bid_status_and_update_execute_index_first(t, bid, updated_status, auction, ok) ==
    /\ IsIdle(t)
    /\ IF bid_update_refused(updated_status, auction) \/ ~ok
       THEN /\ db_bid' = db_bid
            /\ bids' = index_after_update(bids, bid, updated_status)
            /\ Return(t, bid_update_error(updated_status))
       ELSE LET stmt == bid_update_statement(updated_status, auction) IN
            /\ db_bid' = execute_bid_update(db_bid, bid.id, stmt)
            /\ bids' = bids
            /\ task' = [task EXCEPT ![t] =
                  Frame("bbsu_index", bid, updated_status, auction,
                        rows_matched(db_bid, bid.id, stmt), "none")]
    /\ UNCHANGED <<db_auction, submitted_auctions, events>>

(* The first step: the match on updated_status up to the UPDATE's await.   *)
broadcast_bid_status_and_update_execute(t, bid, updated_status, auction, ok) ==
    /\ IsIdle(t)
    /\ IF bid_update_refused(updated_status, auction) \/ ~ok
       THEN /\ db_bid' = db_bid
            /\ Return(t, bid_update_error(updated_status))
       ELSE LET stmt == bid_update_statement(updated_status, auction) IN
            /\ db_bid' = execute_bid_update(db_bid, bid.id, stmt)
            /\ task' = [task EXCEPT ![t] =
                  Frame("bbsu_index", bid, updated_status, auction,
                        rows_matched(db_bid, bid.id, stmt), "none")]
    /\ UNCHANGED <<db_auction, bids, submitted_auctions, events>>

broadcast_bid_status_and_update_index(t) ==
    /\ task[t].pc = "bbsu_index"
    /\ bids' = index_after_update(bids, task[t].bid, task[t].status)
    /\ task' = [task EXCEPT ![t].pc = "bbsu_send"]
    /\ UNCHANGED <<db_bid, db_auction, submitted_auctions, events>>

broadcast_whatever_rows(rows_affected) == TRUE

(* if query_result.rows_affected() > 0 { broadcast_status_update }         *)
should_broadcast(rows_affected) == rows_affected > 0

broadcast_bid_status_and_update_send(t) ==
    /\ task[t].pc = "bbsu_send"
    /\ IF should_broadcast(task[t].rows)
       THEN broadcast_status_update(task[t].bid.id, task[t].status)
       ELSE events' = events
    /\ Return(t, "Ok")
    /\ UNCHANGED <<db_bid, db_auction, bids, submitted_auctions>>

----------------------------------------------------------------------------
(* Store::init_auction, submit_auction, conclude_auction.                  *)

(* The record init_auction builds and returns: a fresh id, conclusion_time,*)
(* tx_hash and submission_time None.                                       *)
init_auction_record(key, bid_collection_time) ==
    Auction(Len(db_auction) + 1, key, now_utc, bid_collection_time)

(* INSERT INTO auction; `?` returns the database error.                    *)
init_auction(t, key, ok) ==
    /\ IsIdle(t)
    /\ IF ok
       THEN /\ db_auction' = Append(db_auction, init_auction_record(key, now_utc))
            /\ Return(t, "Ok")
       ELSE /\ db_auction' = db_auction
            /\ Return(t, "Err")
    /\ UNCHANGED <<db_bid, bids, submitted_auctions, events>>

(* UPDATE auction SET submission_time, tx_hash                             *)
(*   WHERE id = $3 AND submission_time IS NULL                             *)
execute_submit_update(table, auction) ==
    IF auction.id \in 1..Len(table) /\ ~IsSome(table[auction.id].submission_time)
    THEN [table EXCEPT ![auction.id] =
            [@ EXCEPT !.submission_time = auction.submission_time,
                      !.tx_hash = auction.tx_hash]]
    ELSE table

submit_auction_execute(t, auction, transaction_hash, ok) ==
    LET submitted == [auction EXCEPT !.tx_hash = Some(transaction_hash),
                                     !.submission_time = Some(now_utc)] IN
    /\ IsIdle(t)
    /\ IF ok
       THEN /\ db_auction' = execute_submit_update(db_auction, submitted)
            /\ task' = [task EXCEPT ![t] =
                  Frame("submit_auction_push", NoBid, Pending, Some(submitted), 0, "none")]
       ELSE /\ db_auction' = db_auction
            /\ Return(t, "Err")
    /\ UNCHANGED <<db_bid, bids, submitted_auctions, events>>

(* submitted_auctions.write().entry(chain_id).or_insert_with(Vec::new)     *)
(*   .push(auction)                                                        *)
push_submitted_auction(index, auction) ==
    LET chain_id == auction.key[2]
        old == IF chain_id \in DOMAIN index THEN index[chain_id] ELSE <<>>
    IN MapPut(index, chain_id, Append(old, auction))

submit_auction_push(t) ==
    /\ task[t].pc = "submit_auction_push"
    /\ submitted_auctions' = push_submitted_auction(submitted_auctions, Unwrap(task[t].auction))
    /\ Return(t, "Ok")
    /\ UNCHANGED <<db_bid, db_auction, bids, events>>

(* UPDATE auction SET conclusion_time WHERE id = $2                        *)
(*   AND conclusion_time IS NULL                                           *)
execute_conclude_update(table, auction) ==
    IF auction.id \in 1..Len(table) /\ ~IsSome(table[auction.id].conclusion_time)
    THEN [table EXCEPT ![auction.id] = [@ EXCEPT !.conclusion_time = auction.conclusion_time]]
    ELSE table

conclude_auction(t, auction, ok) ==
    LET concluded == [auction EXCEPT !.conclusion_time = Some(now_utc)] IN
    /\ IsIdle(t)
    /\ IF ok
       THEN /\ db_auction' = execute_conclude_update(db_auction, concluded)
            /\ Return(t, "Ok")
       ELSE /\ db_auction' = db_auction
            /\ Return(t, "Err")
    /\ UNCHANGED <<db_bid, bids, submitted_auctions, events>>

----------------------------------------------------------------------------
(* Store::get_bids, bids_for_submitted_auction, remove_submitted_auction.  *)

get_bids(key) == IF key \in DOMAIN bids THEN bids[key] ELSE <<>>

bids_for_submitted_auction(auction) ==
    IF IsSome(auction.tx_hash)
    THEN SelectSeq(get_bids(auction.key),
                   LAMBDA bid : /\ bid.status.kind = "Submitted"
                                /\ bid.status.result = auction.tx_hash)
    ELSE <<>>

(* The early return: some bid of the index is still Submitted with this    *)
(* auction's tx_hash.                                                      *)
remove_submitted_auction_check(t, auction) ==
    /\ IsIdle(t)
    /\ IF bids_for_submitted_auction(auction) # <<>>
       THEN Return(t, "Ok")
       ELSE task' = [task EXCEPT ![t] =
              Frame("remove_submitted_auction_retain", NoBid, Pending, Some(auction), 0, "none")]
    /\ UNCHANGED <<db_bid, db_auction, bids, submitted_auctions, events>>

retain_submitted_auctions(index, auction) ==
    LET chain_id == auction.key[2] IN
    IF chain_id \in DOMAIN index
    THEN LET kept == SelectSeq(index[chain_id], LAMBDA a : a.id # auction.id) IN
         IF kept = <<>> THEN MapRemove(index, chain_id) ELSE MapPut(index, chain_id, kept)
    ELSE index

remove_submitted_auction_retain(t) ==
    /\ task[t].pc = "remove_submitted_auction_retain"
    /\ submitted_auctions' = retain_submitted_auctions(submitted_auctions, Unwrap(task[t].auction))
    /\ Return(t, "Ok")
    /\ UNCHANGED <<db_bid, db_auction, bids, events>>

----------------------------------------------------------------------------
(* The status of a bid as read back from the tables.                       *)

(* models::Bid::is_for_auction: the auction given is the one the row names.*)
is_for_auction(bid, auction) ==
    IF IsSome(auction) THEN bid.auction_id = Some(Unwrap(auction).id)
    ELSE bid.auction_id = None

try_from_bid_row_only(bid, auction) ==
    IF bid.status = "pending" THEN Some(Pending)
    ELSE IF bid.status = "lost" THEN Some(Lost(None, bid.bundle_index))
    ELSE None

(* TryFrom<(models::Bid, Option<models::Auction>)> for BidStatus: None     *)
(* stands for Err.                                                         *)
try_from(bid, auction) ==
    IF ~is_for_auction(bid, auction) THEN None
    ELSE IF bid.status = "pending" THEN Some(Pending)
    ELSE LET result == IF IsSome(auction) THEN Unwrap(auction).tx_hash ELSE None
             index == bid.bundle_index IN
         IF bid.status = "lost" THEN Some(Lost(result, index))
         ELSE IF result = None \/ index = None THEN None
         ELSE IF bid.status = "won" THEN Some(Won(Unwrap(result), Unwrap(index)))
         ELSE IF bid.status = "submitted" THEN Some(Submitted(Unwrap(result), Unwrap(index)))
         ELSE None

(* The bid row with the auction row it names, as the queries that reload   *)
(* bids pair them.                                                         *)
reload_status(id) ==
    try_from(db_bid[id],
             IF IsSome(db_bid[id].auction_id)
             THEN Some(db_auction[Unwrap(db_bid[id].auction_id)])
             ELSE None)

----------------------------------------------------------------------------
(* Access tokens.  A row of table access_token is [profile_id, token,      *)
(* revoked]; row i holds the i-th generated token, so a token is the       *)
(* number of its row.  access_tokens is the cache of the Store.            *)

AccessToken(profile_id, token) ==
    [profile_id |-> profile_id, token |-> token, revoked |-> FALSE]

TokenFrame(pc, profile_id, token, rows, ret) ==
    [pc |-> pc, profile_id |-> profile_id, token |-> token, rows |-> rows, ret |-> ret]

TokenIdle(ret) == TokenFrame("idle", "", 0, 0, ret)

TokenReturn(t, ret) == token_task' = [token_task EXCEPT ![t] = TokenIdle(ret)]

(* The rows WHERE profile_id = $1 AND revoked_at is NULL.                  *)
live_tokens(table, profile_id) ==
    {i \in 1..Len(table) : table[i].profile_id = profile_id /\ ~table[i].revoked}

(* fetch_access_tokens: the tokens of the rows WHERE revoked_at IS NULL,   *)
(* each with its profile.                                                  *)
fetch_access_tokens(table) ==
    LET live == {i \in 1..Len(table) : ~table[i].revoked} IN
    [token \in {table[i].token : i \in live} |-> table[token].profile_id]

insert_access_token_unguarded(table, profile_id) ==
    Append(table, AccessToken(profile_id, Len(table) + 1))

(* INSERT INTO access_token ... WHERE NOT EXISTS (a live token of the      *)
(* profile), with a newly generated token.                                 *)
insert_access_token(table, profile_id) ==
    IF live_tokens(table, profile_id) # {} THEN table
    ELSE Append(table, AccessToken(profile_id, Len(table) + 1))

(* get_or_create_access_token up to the INSERT's await; rows is            *)
(* result.rows_affected().                                                 *)
get_or_create_access_token_insert(t, profile_id, ok) ==
    /\ token_task[t].pc = "idle"
    /\ IF ok
       THEN /\ db_access_token' = insert_access_token(db_access_token, profile_id)
            /\ token_task' = [token_task EXCEPT ![t] =
                 TokenFrame("goc_select", profile_id, 0,
                            Len(db_access_token') - Len(db_access_token), "none")]
       ELSE /\ TokenReturn(t, "TemporarilyUnavailable")
            /\ db_access_token' = db_access_token
    /\ access_tokens' = access_tokens

(* SELECT the live token of the profile, fetch_one: no row is an error.    *)
get_or_create_access_token_select(t, ok) ==
    /\ token_task[t].pc = "goc_select"
    /\ LET live == live_tokens(db_access_token, token_task[t].profile_id) IN
       IF ok /\ live # {}
       THEN \E i \in live :
               token_task' = [token_task EXCEPT ![t].pc = "goc_profile",
                                                ![t].token = db_access_token[i].token]
       ELSE TokenReturn(t, "TemporarilyUnavailable")
    /\ UNCHANGED <<db_access_token, access_tokens>>

(* get_profile_by_id.                                                      *)
get_or_create_access_token_profile(t, ok) ==
    /\ token_task[t].pc = "goc_profile"
    /\ IF ok
       THEN token_task' = [token_task EXCEPT ![t].pc = "goc_cache"]
       ELSE TokenReturn(t, "TemporarilyUnavailable")
    /\ UNCHANGED <<db_access_token, access_tokens>>

created_always(rows_affected) == TRUE

(* result.rows_affected() > 0, the second component of the result.         *)
created(rows_affected) == rows_affected > 0

(* access_tokens.write().insert(token, profile); Ok((token, created)): the *)
(* frame keeps the token returned.                                         *)
get_or_create_access_token_cache(t) ==
    /\ token_task[t].pc = "goc_cache"
    /\ access_tokens' = MapPut(access_tokens, token_task[t].token, token_task[t].profile_id)
    /\ token_task' = [token_task EXCEPT ![t] =
         TokenFrame("idle", token_task[t].profile_id, token_task[t].token, 0,
                    IF created(token_task[t].rows) THEN "Ok(token, true)"
                    ELSE "Ok(token, false)")]
    /\ db_access_token' = db_access_token

(* revoke_access_token, UPDATE ... WHERE token = $1 AND revoked_at is NULL *)
revoke_access_token_update(t, token, ok) ==
    /\ token_task[t].pc = "idle"
    /\ IF ok
       THEN /\ db_access_token' =
                 [i \in 1..Len(db_access_token) |->
                    IF db_access_token[i].token = token /\ ~db_access_token[i].revoked
                    THEN [db_access_token[i] EXCEPT !.revoked = TRUE]
                    ELSE db_access_token[i]]
            /\ token_task' = [token_task EXCEPT ![t] =
                 TokenFrame("revoke_remove", "", token, 0, "none")]
       ELSE /\ TokenReturn(t, "TemporarilyUnavailable")
            /\ db_access_token' = db_access_token
    /\ access_tokens' = access_tokens

(* access_tokens.write().remove(token).                                    *)
revoke_access_token_remove(t) ==
    /\ token_task[t].pc = "revoke_remove"
    /\ access_tokens' = MapRemove(access_tokens, token_task[t].token)
    /\ TokenReturn(t, "Ok")
    /\ db_access_token' = db_access_token

(* get_profile_by_token: access_tokens.read().get(token).cloned()           *)
(*   .ok_or(RestError::InvalidToken).                                      *)
get_profile_by_token(token) ==
    IF token \in DOMAIN access_tokens THEN access_tokens[token] ELSE "InvalidToken"

----------------------------------------------------------------------------
(* The per-key auction locks.  An AuctionLock is an Arc<Mutex<()>>: lock   *)
(* number i is mutexes[i], the task holding its Mutex or "".  A task's     *)
(* frame holds the key it asked for, the Arc it was given (0: none),       *)
(* whether it holds the MutexGuard, and the key of the remove_auction_lock *)
(* call it is waiting in for the map's mutex.                              *)

NoLock == [key |-> <<"", "">>, arc |-> 0, guard |-> FALSE, removing |-> None]

strong_count_of_holders(id) ==
    1 + Cardinality({t \in LockTasks : lock_task[t].arc = id /\ lock_task[t].guard})

(* Arc::strong_count: the map's reference and one for each task's clone.   *)
strong_count(id) ==
    1 + Cardinality({t \in LockTasks : lock_task[t].arc = id})

(* get_auction_lock: under the map's mutex, the entry's lock or a new one, *)
(* cloned.                                                                 *)
get_auction_lock(t, key) ==
    /\ lock_task[t].arc = 0
    /\ lock_task[t].removing = None
    /\ IF key \in DOMAIN lock_entries
       THEN /\ lock_task' = [lock_task EXCEPT ![t].key = key, ![t].arc = lock_entries[key]]
            /\ UNCHANGED <<lock_entries, mutexes>>
       ELSE /\ mutexes' = Append(mutexes, "")
            /\ lock_entries' = MapPut(lock_entries, key, Len(mutexes) + 1)
            /\ lock_task' = [lock_task EXCEPT ![t].key = key, ![t].arc = Len(mutexes) + 1]

(* auction_lock.lock().await returns when the Mutex is free.               *)
lock(t) ==
    /\ lock_task[t].arc # 0
    /\ ~lock_task[t].guard
    /\ mutexes[lock_task[t].arc] = ""
    /\ mutexes' = [mutexes EXCEPT ![lock_task[t].arc] = t]
    /\ lock_task' = [lock_task EXCEPT ![t].guard = TRUE]
    /\ lock_entries' = lock_entries

drop_guard_keeps_mutex(t) ==
    /\ lock_task[t].guard
    /\ lock_task' = [lock_task EXCEPT ![t].guard = FALSE]
    /\ UNCHANGED <<lock_entries, mutexes>>

(* The MutexGuard is dropped.                                              *)
drop_guard(t) ==
    /\ lock_task[t].guard
    /\ mutexes' = [mutexes EXCEPT ![lock_task[t].arc] = ""]
    /\ lock_task' = [lock_task EXCEPT ![t].guard = FALSE]
    /\ lock_entries' = lock_entries

(* The task's clone of the Arc is dropped.                                 *)
drop_lock(t) ==
    /\ lock_task[t].arc # 0
    /\ ~lock_task[t].guard
    /\ lock_task' = [lock_task EXCEPT ![t].arc = 0]
    /\ UNCHANGED <<lock_entries, mutexes>>

(* remove_auction_lock is called and waits for the map's mutex.            *)
remove_auction_lock_call(t, key) ==
    /\ lock_task[t].removing = None
    /\ lock_task' = [lock_task EXCEPT ![t].removing = Some(key)]
    /\ UNCHANGED <<lock_entries, mutexes>>

may_remove_any(count) == TRUE

(* if Arc::strong_count(auction_lock) == 1                                 *)
may_remove(count) == count = 1

(* remove_auction_lock under the map's mutex.                              *)
remove_auction_lock(t) ==
    /\ IsSome(lock_task[t].removing)
    /\ LET key == Unwrap(lock_task[t].removing) IN
       lock_entries' =
          IF key \in DOMAIN lock_entries /\ may_remove(strong_count(lock_entries[key]))
          THEN MapRemove(lock_entries, key)
          ELSE lock_entries
    /\ lock_task' = [lock_task EXCEPT ![t].removing = None]
    /\ mutexes' = mutexes

----------------------------------------------------------------------------
(* Opportunities.  A row of table opportunity is [permission_key,          *)
(* removal_time, removal_reason]; the caller gives each opportunity a      *)
(* fresh id, so row i is the opportunity with id i.                        *)

Opportunity(id, permission_key) == [id |-> id, permission_key |-> permission_key]
NoOpportunity == Opportunity(0, "")

OpportunityFrame(pc, opportunity, reason, now, ret) ==
    [pc |-> pc, opportunity |-> opportunity, reason |-> reason, now |-> now, ret |-> ret]

OpportunityIdle(ret) == OpportunityFrame("idle", NoOpportunity, "", 0, ret)

(* A call returns: the frame keeps the arguments of the call.              *)
OpportunityReturn(t, ret) ==
    opportunity_task' = [opportunity_task EXCEPT ![t].pc = "idle", ![t].ret = ret]

opportunities_of(key) == IF key \in DOMAIN opportunities THEN opportunities[key] ELSE <<>>

(* OpportunityStore::add_opportunity.                                      *)
opportunity_store_add_opportunity(opportunity) ==
    MapPut(opportunities, opportunity.permission_key,
           Append(opportunities_of(opportunity.permission_key), opportunity))

(* Store::opportunity_exists.                                              *)
opportunity_exists(opportunity) ==
    \E i \in 1..Len(opportunities_of(opportunity.permission_key)) :
        opportunities_of(opportunity.permission_key)[i] = opportunity

(* Store::add_opportunity: INSERT INTO opportunity.                        *)
add_opportunity_insert(t, opportunity, ok) ==
    /\ opportunity_task[t].pc = "idle"
    /\ IF ok
       THEN /\ db_opportunity' = Append(db_opportunity,
                                        [permission_key |-> opportunity.permission_key,
                                         removal_time |-> None, removal_reason |-> None])
            /\ opportunity_task' = [opportunity_task EXCEPT
                                      ![t] = OpportunityFrame("add_push", opportunity, "", 0, "none")]
       ELSE /\ opportunity_task' = [opportunity_task EXCEPT
                                      ![t] = OpportunityFrame("idle", opportunity, "", 0,
                                                              "Err(TemporarilyUnavailable)")]
            /\ UNCHANGED db_opportunity
    /\ UNCHANGED opportunities

(* Store::add_opportunity: self.opportunity_store.add_opportunity.         *)
add_opportunity_push(t) ==
    /\ opportunity_task[t].pc = "add_push"
    /\ opportunities' = opportunity_store_add_opportunity(opportunity_task[t].opportunity)
    /\ OpportunityReturn(t, "Ok")
    /\ UNCHANGED db_opportunity

(* Store::remove_opportunity, under the write guard: retain, remove the    *)
(* key of an empty vector, read the clock.                                 *)
remove_opportunity_retain(t, opportunity, reason) ==
    /\ opportunity_task[t].pc = "idle"
    /\ LET key == opportunity.permission_key
           retained == SelectSeq(opportunities_of(key), LAMBDA o : o # opportunity) IN
       opportunities' = IF retained = <<>> THEN MapRemove(opportunities, key)
                        ELSE MapPut(opportunities, key, retained)
    /\ opportunity_task' = [opportunity_task EXCEPT
                              ![t] = OpportunityFrame("remove_update", opportunity, reason,
                                                      now_utc, "none")]
    /\ UNCHANGED db_opportunity

execute_opportunity_removal_unguarded(table, id, now, reason) ==
    IF id \in 1..Len(table)
    THEN [table EXCEPT ![id].removal_time = Some(now), ![id].removal_reason = Some(reason)]
    ELSE table

(* UPDATE opportunity SET removal_time = $1, removal_reason = $2 WHERE     *)
(* id = $3 AND removal_time IS NULL.                                       *)
execute_opportunity_removal(table, id, now, reason) ==
    IF id \in 1..Len(table) /\ table[id].removal_time = None
    THEN [table EXCEPT ![id].removal_time = Some(now), ![id].removal_reason = Some(reason)]
    ELSE table

(* Store::remove_opportunity: the UPDATE.                                  *)
remove_opportunity_update(t, ok) ==
    /\ opportunity_task[t].pc = "remove_update"
    /\ IF ok
       THEN /\ db_opportunity' = execute_opportunity_removal(db_opportunity,
                                      opportunity_task[t].opportunity.id,
                                      opportunity_task[t].now, opportunity_task[t].reason)
            /\ OpportunityReturn(t, "Ok")
       ELSE /\ OpportunityReturn(t, "Err")
            /\ UNCHANGED db_opportunity
    /\ UNCHANGED opportunities

----------------------------------------------------------------------------
(* fault_tolerant_handler: the loop that spawns f(), awaits it and matches *)
(* on what it gave.                                                        *)

BackoffMillis == 500
LoopResults == {"Ok", "Err", "JoinError"}

HandlerFrame(pc, spawns, res, wake) ==
    [pc |-> pc, spawns |-> spawns, res |-> res, wake |-> wake]
HandlerStart == HandlerFrame("loop", 0, "none", 0)

spawn_unless_exiting(h) ==
    /\ handler[h].pc = "loop"
    /\ ~SHOULD_EXIT
    /\ handler' = [handler EXCEPT ![h].pc = "await", ![h].spawns = @ + 1]
    /\ UNCHANGED <<SHOULD_EXIT, timer, outcome>>

(* tokio::spawn(f()).                                                      *)
spawn(h) ==
    /\ handler[h].pc = "loop"
    /\ handler' = [handler EXCEPT ![h].pc = "await", ![h].spawns = @ + 1]
    /\ UNCHANGED <<SHOULD_EXIT, timer, outcome>>

match_res_always_retry(res) == "sleep"

(* match res: where the handler goes with what the task gave.              *)
match_res(res) ==
    CASE res = "Ok" -> "done"
      [] res = "Err" -> "sleep"
      [] res = "JoinError" -> "done"

await_res_storing_panicked(h, res) ==
    /\ handler[h].pc = "await"
    /\ handler' = [handler EXCEPT
                     ![h].pc = match_res(res),
                     ![h].res = res,
                     ![h].wake = IF res = "Err" THEN timer + BackoffMillis ELSE @]
    /\ SHOULD_EXIT' = (res = "JoinError")
    /\ UNCHANGED <<timer, outcome>>

(* The spawned task ends: Ok(Ok(_)), Ok(Err(err)) or Err(err).             *)
await_res(h, res) ==
    /\ handler[h].pc = "await"
    /\ handler' = [handler EXCEPT
                     ![h].pc = match_res(res),
                     ![h].res = res,
                     ![h].wake = IF res = "Err" THEN timer + BackoffMillis ELSE @]
    /\ SHOULD_EXIT' = IF res = "JoinError" THEN TRUE ELSE SHOULD_EXIT
    /\ UNCHANGED <<timer, outcome>>

(* sleep(Duration::from_millis(500)) is over: the loop goes round.         *)
sleep_over(h) ==
    /\ handler[h].pc = "sleep"
    /\ timer >= handler[h].wake
    /\ handler' = [handler EXCEPT ![h].pc = "loop"]
    /\ UNCHANGED <<SHOULD_EXIT, timer, outcome>>

(* The shutdown signal handler of start_server.                            *)
ctrl_c ==
    /\ ~SHOULD_EXIT
    /\ SHOULD_EXIT' = TRUE
    /\ UNCHANGED <<handler, timer, outcome>>

(* start_server: tokio::join! is over when every handler has left its      *)
(* loop; the task tracker is closed and awaited and Ok(()) is returned.    *)
start_server_join ==
    /\ outcome = None
    /\ \A h \in Handlers : handler[h].pc = "done"
    /\ outcome' = Some("Ok(())")
    /\ UNCHANGED <<handler, SHOULD_EXIT, timer>>

----------------------------------------------------------------------------
(* Construction: server.rs builds the Store with empty bids and            *)
(* submitted_auctions, an empty lock map and a new event channel.  The     *)
(* database starts empty.                                                  *)

LoopIdle ==
    [pc |-> "idle", key |-> <<"", "">>, snapshot |-> <<>>, bundle |-> <<>>, next |-> 0,
     auction |-> None]

Init ==
    /\ db_bid = <<>>
    /\ db_auction = <<>>
    /\ bids = EmptyMap
    /\ submitted_auctions = EmptyMap
    /\ events = <<>>
    /\ task = [t \in Tasks |-> Idle("none")]
    /\ loop = [t \in LoopTasks |-> LoopIdle]
    /\ auction_lock = {}
    /\ db_access_token = <<>>
    /\ access_tokens = EmptyMap
    /\ token_task = [t \in TokenTasks |-> TokenIdle("none")]
    /\ lock_entries = EmptyMap
    /\ mutexes = <<>>
    /\ lock_task = [t \in LockTasks |-> NoLock]
    /\ db_opportunity = <<>>
    /\ opportunities = EmptyMap
    /\ opportunity_task = [t \in OpportunityTasks |-> OpportunityIdle("none")]
    /\ handler = [h \in Handlers |-> HandlerStart]
    /\ SHOULD_EXIT = FALSE
    /\ timer = 0
    /\ outcome = None

----------------------------------------------------------------------------
(* Callers.  Two concurrent callers drive the bid operations of the Store  *)
(* with any arguments: the bid and the auction a caller passes are records *)
(* it read from the index or the database.                                 *)

tx_hash_of(auction_id) == TxHashes[auction_id]
BidArgs == {SimulatedBid(id, db_bid[id].key, Pending) : id \in BidIds}
AuctionArgs == {db_auction[id] : id \in AuctionIds}
OptAuctionArgs == {None} \cup {Some(a) : a \in AuctionArgs}
CallerHashes == {tx_hash_of(id) : id \in 1..MaxCallerAuctions}

AddBid(t) ==
    /\ \/ /\ Len(db_bid) < MaxCallerBids
          /\ \E key \in AuctionKeys, ok \in BOOLEAN : add_bid_insert(t, key, ok)
       \/ add_bid_push(t)
       \/ add_bid_send(t)
    /\ UNCHANGED <<loopVars, tokenVars, restVars>>

BroadcastBidStatusAndUpdate(t) ==
    /\ \/ \E bid \in BidArgs, updated_status \in BidStatuses(CallerHashes),
             auction \in OptAuctionArgs, ok \in BOOLEAN :
               broadcast_bid_status_and_update_execute(t, bid, updated_status, auction, ok)
       \/ broadcast_bid_status_and_update_index(t)
       \/ broadcast_bid_status_and_update_send(t)
    /\ UNCHANGED <<loopVars, tokenVars, restVars>>

InitAuction(t) ==
    /\ Len(db_auction) < MaxCallerAuctions
    /\ \E key \in AuctionKeys, ok \in BOOLEAN : init_auction(t, key, ok)
    /\ UNCHANGED <<loopVars, tokenVars, restVars>>

NextBid ==
    \E t \in ApiTasks :
        \/ AddBid(t)
        \/ BroadcastBidStatusAndUpdate(t)
        \/ InitAuction(t)

SpecBid == Init /\ [][NextBid]_vars

----------------------------------------------------------------------------
(* The server: the bid intake, a submission task, a tracker task and the   *)
(* restart of the process, over the Store.  The Store operations are the   *)
(* ones above; the order in which the loops call them is the one the       *)
(* specification gives for the submission tick and the tracker tick.       *)

Release(s) ==
    /\ loop' = [loop EXCEPT ![s] = LoopIdle]
    /\ auction_lock' = auction_lock \ {loop[s].key}

(* Store::get_permission_keys_for_auction: the keys of the bids index on   *)
(* this chain.                                                             *)
get_permission_keys_for_auction(chain_id) ==
    {key[1] : key \in {k \in DOMAIN bids : k[2] = chain_id}}

PendingOf(snapshot) == SelectSeq(snapshot, LAMBDA bid : bid.status.kind = "Pending")

(* The bundles a selection policy may form from the pending bids of a      *)
(* snapshot: any one of them, or all of them in snapshot order.            *)
Bundles(pending) == {<<pending[i]>> : i \in 1..Len(pending)} \cup {pending}

(* A tick for one key with pending bids: take the per-key lock, snapshot   *)
(* the bids of the key, select the bundle.                                 *)
SubmissionAcquire(s) ==
    /\ loop[s].pc = "idle"
    /\ \E chain_id \in ChainIds : \E permission_key \in get_permission_keys_for_auction(chain_id) :
         LET key == <<permission_key, chain_id>>
             snapshot == get_bids(key)
             pending == PendingOf(snapshot) IN
         /\ key \notin auction_lock
         /\ pending # <<>>
         /\ Len(db_auction) < MaxAuctions
         /\ \E bundle \in Bundles(pending) :
              loop' = [loop EXCEPT ![s] =
                 [pc |-> "init", key |-> key, snapshot |-> snapshot, bundle |-> bundle,
                  next |-> 1, auction |-> None]]
         /\ auction_lock' = auction_lock \cup {key}
    /\ UNCHANGED <<storeVars, tokenVars, restVars>>

(* init_auction; an error ends the tick.                                   *)
SubmissionInit(s) ==
    /\ loop[s].pc = "init"
    /\ \E ok \in BOOLEAN :
         /\ init_auction(s, loop[s].key, ok)
         /\ IF ok
            THEN /\ loop' = [loop EXCEPT ![s].pc = "dispatch",
                                         ![s].auction = Some(init_auction_record(loop[s].key, now_utc))]
                 /\ auction_lock' = auction_lock
            ELSE Release(s)
    /\ UNCHANGED <<tokenVars, restVars>>

(* The dispatch of the bundle's transaction: it fails and the tick ends,   *)
(* or it returns the hash and submit_auction runs.                         *)
SubmissionDispatch(s) ==
    /\ loop[s].pc = "dispatch"
    /\ \/ /\ Release(s)
          /\ UNCHANGED storeVars
       \/ \E ok \in BOOLEAN :
            LET auction == Unwrap(loop[s].auction) IN
            /\ submit_auction_execute(s, auction, tx_hash_of(auction.id), ok)
            /\ IF ok
               THEN /\ loop' = [loop EXCEPT ![s].pc = "push"]
                    /\ auction_lock' = auction_lock
               ELSE Release(s)
    /\ UNCHANGED <<tokenVars, restVars>>

SubmissionPush(s) ==
    /\ loop[s].pc = "push"
    /\ submit_auction_push(s)
    /\ loop' = [loop EXCEPT ![s].pc = "bids", ![s].auction = task[s].auction]
    /\ UNCHANGED <<auction_lock, tokenVars, restVars>>

(* Each bid of the bundle: Pending -> Submitted{tx_hash, position}.        *)
SubmissionBid(s) ==
    /\ loop[s].pc = "bids"
    /\ \/ /\ loop[s].next <= Len(loop[s].bundle)
          /\ \E ok \in BOOLEAN :
               LET auction == Unwrap(loop[s].auction) IN
               broadcast_bid_status_and_update_execute(
                   s, loop[s].bundle[loop[s].next],
                   Submitted(Unwrap(auction.tx_hash), loop[s].next - 1),
                   loop[s].auction, ok)
          /\ loop' = [loop EXCEPT ![s].next = @ + 1]
       \/ /\ broadcast_bid_status_and_update_index(s)
          /\ loop' = loop
       \/ /\ broadcast_bid_status_and_update_send(s)
          /\ loop' = loop
    /\ UNCHANGED <<auction_lock, tokenVars, restVars>>

SubmissionRelease(s) ==
    /\ loop[s].pc = "bids"
    /\ loop[s].next > Len(loop[s].bundle)
    /\ IsIdle(s)
    /\ Release(s)
    /\ UNCHANGED <<storeVars, tokenVars, restVars>>

(* Store::get_submitted_auctions, over all chains.                         *)
get_submitted_auctions(chain_id) ==
    IF chain_id \in DOMAIN submitted_auctions THEN submitted_auctions[chain_id] ELSE <<>>

(* A tracker tick that finds the receipt of a submitted auction: the bids  *)
(* bound to it are the Submitted bids of the index with its tx_hash.       *)
TrackerReceipt(r) ==
    /\ loop[r].pc = "idle"
    /\ \E chain_id \in ChainIds :
         LET auctions == get_submitted_auctions(chain_id) IN
         \E i \in 1..Len(auctions) :
            loop' = [loop EXCEPT ![r] =
               [pc |-> "bids", key |-> auctions[i].key, snapshot |-> <<>>,
                bundle |-> bids_for_submitted_auction(auctions[i]),
                next |-> 1, auction |-> Some(auctions[i])]]
    /\ UNCHANGED <<storeVars, auction_lock, tokenVars, restVars>>

(* Each bound bid: Submitted -> Won, or Submitted -> Lost with the         *)
(* auction's tx_hash and the bid's index.                                  *)
TrackerBid(r) ==
    /\ loop[r].pc = "bids"
    /\ \/ /\ loop[r].next <= Len(loop[r].bundle)
          /\ \E won \in BOOLEAN, ok \in BOOLEAN :
               LET bid == loop[r].bundle[loop[r].next]
                   result == Unwrap(bid.status.result)
                   index == Unwrap(bid.status.index) IN
               broadcast_bid_status_and_update_execute(
                   r, bid,
                   IF won THEN Won(result, index) ELSE Lost(Some(result), Some(index)),
                   loop[r].auction, ok)
          /\ loop' = [loop EXCEPT ![r].next = @ + 1]
       \/ /\ broadcast_bid_status_and_update_index(r)
          /\ loop' = loop
       \/ /\ broadcast_bid_status_and_update_send(r)
          /\ loop' = loop
    /\ UNCHANGED <<auction_lock, tokenVars, restVars>>

(* After the bids: conclude_auction if no bound bid is still Submitted.    *)
TrackerConclude(r) ==
    /\ loop[r].pc = "bids"
    /\ loop[r].next > Len(loop[r].bundle)
    /\ IsIdle(r)
    /\ IF bids_for_submitted_auction(Unwrap(loop[r].auction)) = <<>>
       THEN \E ok \in BOOLEAN :
              /\ conclude_auction(r, Unwrap(loop[r].auction), ok)
              /\ loop' = [loop EXCEPT ![r] =
                    IF ok THEN [@ EXCEPT !.pc = "remove",
                                         !.auction = Some([Unwrap(@) EXCEPT
                                                             !.conclusion_time = Some(now_utc)])]
                    ELSE LoopIdle]
       ELSE /\ loop' = [loop EXCEPT ![r] = LoopIdle]
            /\ UNCHANGED storeVars
    /\ UNCHANGED <<auction_lock, tokenVars, restVars>>

(* remove_submitted_auction with the concluded auction.                    *)
TrackerRemove(r) ==
    /\ loop[r].pc = "remove"
    /\ \/ /\ remove_submitted_auction_check(r, Unwrap(loop[r].auction))
          /\ loop' = IF bids_for_submitted_auction(Unwrap(loop[r].auction)) # <<>>
                     THEN [loop EXCEPT ![r] = LoopIdle] ELSE loop
       \/ /\ remove_submitted_auction_retain(r)
          /\ loop' = [loop EXCEPT ![r] = LoopIdle]
    /\ UNCHANGED <<auction_lock, tokenVars, restVars>>

(* The bid intake of the API.                                              *)
Intake(t) ==
    /\ \/ /\ Len(db_bid) < MaxBids
          /\ \E key \in AuctionKeys, ok \in BOOLEAN : add_bid_insert(t, key, ok)
       \/ add_bid_push(t)
       \/ add_bid_send(t)
    /\ UNCHANGED <<loopVars, tokenVars, restVars>>

(* The process stops and start_server runs again: the tables stay, the     *)
(* Store is built anew with empty bids, submitted_auctions and lock map,   *)
(* the access tokens fetched from the table and a new channel, and every   *)
(* task starts over.                                                       *)
Restart ==
    /\ bids' = EmptyMap
    /\ submitted_auctions' = EmptyMap
    /\ events' = <<>>
    /\ task' = [t \in Tasks |-> Idle("none")]
    /\ loop' = [t \in LoopTasks |-> LoopIdle]
    /\ auction_lock' = {}
    /\ access_tokens' = fetch_access_tokens(db_access_token)
    /\ token_task' = [t \in TokenTasks |-> TokenIdle("none")]
    /\ lock_entries' = EmptyMap
    /\ mutexes' = <<>>
    /\ lock_task' = [t \in LockTasks |-> NoLock]
    /\ opportunities' = EmptyMap
    /\ opportunity_task' = [t \in OpportunityTasks |-> OpportunityIdle("none")]
    /\ handler' = [h \in Handlers |-> HandlerStart]
    /\ SHOULD_EXIT' = FALSE
    /\ outcome' = None
    /\ UNCHANGED <<db_bid, db_auction, db_access_token, db_opportunity, timer>>

IntakeTasks == {"t1"}
ChainSubTasks == {"s1"}

Next ==
    \/ \E t \in IntakeTasks : Intake(t)
    \/ \E s \in ChainSubTasks :
         \/ SubmissionAcquire(s)
         \/ SubmissionInit(s)
         \/ SubmissionDispatch(s)
         \/ SubmissionPush(s)
         \/ SubmissionBid(s)
         \/ SubmissionRelease(s)
    \/ \E r \in TrkTasks :
         \/ TrackerReceipt(r)
         \/ TrackerBid(r)
         \/ TrackerConclude(r)
         \/ TrackerRemove(r)
    \/ Restart

Spec == Init /\ [][Next]_vars

----------------------------------------------------------------------------
(* Submission attempts launched in parallel for one AuctionKey that bears  *)
(* pending bids, while the intake goes on: each attempt waits for the      *)
(* per-key lock, snapshots the bids of the key, and ends at once if none   *)
(* of them is pending.                                                     *)

LaunchSubmissions ==
    /\ \A s \in SubTasks : loop[s].pc = "idle"
    /\ db_auction = <<>>
    /\ \E chain_id \in ChainIds : \E permission_key \in get_permission_keys_for_auction(chain_id) :
         /\ PendingOf(get_bids(<<permission_key, chain_id>>)) # <<>>
         /\ loop' = [l \in LoopTasks |->
                       IF l \in SubTasks
                       THEN [LoopIdle EXCEPT !.pc = "wait", !.key = <<permission_key, chain_id>>]
                       ELSE loop[l]]
    /\ UNCHANGED <<storeVars, auction_lock, tokenVars, restVars>>

SubmissionStart(s) ==
    /\ loop[s].pc = "wait"
    /\ loop[s].key \notin auction_lock
    /\ LET snapshot == get_bids(loop[s].key)
           pending == PendingOf(snapshot) IN
       IF pending = <<>>
       THEN /\ loop' = [loop EXCEPT ![s] = LoopIdle]
            /\ auction_lock' = auction_lock
       ELSE /\ \E bundle \in Bundles(pending) :
                 loop' = [loop EXCEPT ![s] =
                    [pc |-> "init", key |-> loop[s].key, snapshot |-> snapshot,
                     bundle |-> bundle, next |-> 1, auction |-> None]]
            /\ auction_lock' = auction_lock \cup {loop[s].key}
    /\ UNCHANGED <<storeVars, tokenVars, restVars>>

NextSubmit ==
    \/ \E t \in IntakeTasks : Intake(t)
    \/ LaunchSubmissions
    \/ \E s \in SubTasks :
         \/ SubmissionStart(s)
         \/ SubmissionInit(s)
         \/ SubmissionDispatch(s)
         \/ SubmissionPush(s)
         \/ SubmissionBid(s)
         \/ SubmissionRelease(s)

SpecSubmit == Init /\ [][NextSubmit]_vars

----------------------------------------------------------------------------
(* One caller that takes bids through the state machine: it adds bids,     *)
(* creates and submits auctions, and requests for a bid of the index a     *)
(* transition of the state machine from the status the bid has there, with *)
(* the auction whose tx_hash the new status carries.                       *)

IndexedBidArgs == UNION {{get_bids(key)[i] : i \in 1..Len(get_bids(key))} : key \in DOMAIN bids}

(* The requests for a bid: Pending -> Submitted{r,i}, Lost{none,none},     *)
(* Lost{r,none}; Submitted{r,i} -> Won{r,i}, Lost{r,i}.                    *)
TransitionRequests(bid) ==
    IF bid.status.kind = "Pending"
    THEN {<<Lost(None, None), None>>}
         \cup {<<Lost(auction.tx_hash, None), Some(auction)>> :
                 auction \in {a \in AuctionArgs : IsSome(a.tx_hash)}}
         \cup {<<Submitted(Unwrap(auction.tx_hash), i), Some(auction)>> :
                 auction \in {a \in AuctionArgs : IsSome(a.tx_hash)}, i \in BundleIndices}
    ELSE IF bid.status.kind = "Submitted"
    THEN {<<status, Some(auction)>> :
            status \in {Won(Unwrap(bid.status.result), Unwrap(bid.status.index)),
                        Lost(bid.status.result, bid.status.index)},
            auction \in {a \in AuctionArgs : a.tx_hash = bid.status.result}}
    ELSE {}

CreateAuction(t) ==
    /\ Len(db_auction) < MaxAuctions
    /\ \E key \in AuctionKeys, ok \in BOOLEAN : init_auction(t, key, ok)
    /\ UNCHANGED <<loopVars, tokenVars, restVars>>

SubmitAuction(t) ==
    /\ \/ \E auction \in {a \in AuctionArgs : a.submission_time = None}, ok \in BOOLEAN :
            submit_auction_execute(t, auction, tx_hash_of(auction.id), ok)
       \/ submit_auction_push(t)
    /\ UNCHANGED <<loopVars, tokenVars, restVars>>

RequestTransition(t) ==
    /\ \/ \E bid \in IndexedBidArgs : \E request \in TransitionRequests(bid) : \E ok \in BOOLEAN :
            broadcast_bid_status_and_update_execute(t, bid, request[1], request[2], ok)
       \/ broadcast_bid_status_and_update_index(t)
       \/ broadcast_bid_status_and_update_send(t)
    /\ UNCHANGED <<loopVars, tokenVars, restVars>>

NextStatus ==
    \E t \in IntakeTasks :
        \/ Intake(t)
        \/ CreateAuction(t)
        \/ SubmitAuction(t)
        \/ RequestTransition(t)

SpecStatus == Init /\ [][NextStatus]_vars

----------------------------------------------------------------------------
(* The access-token endpoints: two concurrent callers of                   *)
(* get_or_create_access_token and revoke_access_token, and the restart.    *)

GetOrCreateAccessToken(t) ==
    /\ \/ \E profile_id \in Profiles, ok \in BOOLEAN :
            /\ \/ Len(db_access_token) < MaxTokens
               \/ live_tokens(db_access_token, profile_id) # {}
            /\ get_or_create_access_token_insert(t, profile_id, ok)
       \/ \E ok \in BOOLEAN : get_or_create_access_token_select(t, ok)
       \/ \E ok \in BOOLEAN : get_or_create_access_token_profile(t, ok)
       \/ get_or_create_access_token_cache(t)
    /\ UNCHANGED <<storeVars, loopVars, restVars>>

(* The tokens a client can hold: those the cache has answered for, or     *)
(* that were revoked.                                                      *)
KnownTokens ==
    {db_access_token[i].token : i \in {j \in 1..Len(db_access_token) :
        db_access_token[j].revoked \/ db_access_token[j].token \in DOMAIN access_tokens}}

RevokeAccessToken(t) ==
    /\ \/ \E token \in KnownTokens, ok \in BOOLEAN :
            revoke_access_token_update(t, token, ok)
       \/ revoke_access_token_remove(t)
    /\ UNCHANGED <<storeVars, loopVars, restVars>>

NextTokens ==
    \/ \E t \in TokenTasks : GetOrCreateAccessToken(t)
    \/ \E t \in TokenTasks : RevokeAccessToken(t)
    \/ Restart

SpecTokens == Init /\ [][NextTokens]_vars

----------------------------------------------------------------------------
(* The users of the per-key locks: two tasks that ask for the lock of a    *)
(* key, take it, give it back, drop it and call remove_auction_lock, in    *)
(* any order the types allow.                                              *)

GetAuctionLock(t) ==
    /\ \E key \in AuctionKeys :
          /\ key \in DOMAIN lock_entries \/ Len(mutexes) < MaxLocks
          /\ get_auction_lock(t, key)
    /\ UNCHANGED <<storeVars, loopVars, tokenVars, otherVars>>

UseAuctionLock(t) ==
    /\ \/ lock(t)
       \/ drop_guard(t)
       \/ drop_lock(t)
    /\ UNCHANGED <<storeVars, loopVars, tokenVars, otherVars>>

RemoveAuctionLock(t) ==
    /\ \/ \E key \in AuctionKeys : remove_auction_lock_call(t, key)
       \/ remove_auction_lock(t)
    /\ UNCHANGED <<storeVars, loopVars, tokenVars, otherVars>>

NextLock ==
    \E t \in LockTasks :
        \/ GetAuctionLock(t)
        \/ UseAuctionLock(t)
        \/ RemoveAuctionLock(t)

SpecLock == Init /\ [][NextLock]_vars

----------------------------------------------------------------------------
(* Callers of the auction operations.  They add a bid, create an auction,  *)
(* call submit_auction with an auction record they hold (the row as it is, *)
(* or as it was when the auction was created), take the bid through the    *)
(* state machine, and call conclude_auction and remove_submitted_auction   *)
(* with an auction of the table or of the index.                           *)

AuctionTasks == ApiTasks

(* The auction as init_auction returned it.                                *)
as_created(auction) ==
    [auction EXCEPT !.tx_hash = None, !.submission_time = None, !.conclusion_time = None]

HeldAuctionArgs == AuctionArgs \cup {as_created(a) : a \in AuctionArgs}

get_submitted_auctions_len ==
    LET RECURSIVE total(_)
        total(chains) == IF chains = {} THEN 0
                         ELSE LET c == CHOOSE x \in chains : TRUE IN
                              Len(submitted_auctions[c]) + total(chains \ {c})
    IN total(DOMAIN submitted_auctions)

IndexedAuctionArgs ==
    UNION {{submitted_auctions[c][i] : i \in 1..Len(submitted_auctions[c])} :
             c \in DOMAIN submitted_auctions}

SubmitHeldAuction(t) ==
    /\ \/ /\ get_submitted_auctions_len
               + Cardinality({u \in AuctionTasks : task[u].pc = "submit_auction_push"})
                 < MaxSubmits
          /\ \E auction \in HeldAuctionArgs, ok \in BOOLEAN :
                submit_auction_execute(t, auction, tx_hash_of(auction.id), ok)
       \/ submit_auction_push(t)
    /\ UNCHANGED <<loopVars, tokenVars, restVars>>

ConcludeAuction(t) ==
    /\ \E auction \in AuctionArgs, ok \in BOOLEAN : conclude_auction(t, auction, ok)
    /\ UNCHANGED <<loopVars, tokenVars, restVars>>

RemoveSubmittedAuction(t) ==
    /\ \/ \E auction \in AuctionArgs \cup IndexedAuctionArgs :
            remove_submitted_auction_check(t, auction)
       \/ remove_submitted_auction_retain(t)
    /\ UNCHANGED <<loopVars, tokenVars, restVars>>

NextAuction ==
    \E t \in AuctionTasks :
        \/ AddBid(t)
        \/ InitAuction(t)
        \/ SubmitHeldAuction(t)
        \/ RequestTransition(t)
        \/ ConcludeAuction(t)
        \/ RemoveSubmittedAuction(t)

SpecAuction == Init /\ [][NextAuction]_vars

----------------------------------------------------------------------------
(* One caller works on the bids index: it adds bids, and requests          *)
(* statuses for bids it holds, in the index still or not.                  *)

IndexStatuses == {Submitted(tx_hash_of(1), 0), Lost(None, None)}

AddIndexedBid(t) ==
    /\ \/ /\ Len(db_bid) < MaxIndexedBids
          /\ \E key \in AuctionKeys, ok \in BOOLEAN : add_bid_insert(t, key, ok)
       \/ add_bid_push(t)
       \/ add_bid_send(t)
    /\ UNCHANGED <<loopVars, tokenVars, restVars>>

UpdateIndexedBid(t) ==
    /\ \/ \E bid \in BidArgs \cup IndexedBidArgs, updated_status \in IndexStatuses,
             auction \in OptAuctionArgs, ok \in BOOLEAN :
               broadcast_bid_status_and_update_execute(t, bid, updated_status, auction, ok)
       \/ broadcast_bid_status_and_update_index(t)
       \/ broadcast_bid_status_and_update_send(t)
    /\ UNCHANGED <<loopVars, tokenVars, restVars>>

NextIndex ==
    \E t \in IntakeTasks :
        \/ AddIndexedBid(t)
        \/ UpdateIndexedBid(t)
        \/ InitAuction(t)

SpecIndex == Init /\ [][NextIndex]_vars

----------------------------------------------------------------------------
(* Two concurrent callers add opportunities and remove opportunities the   *)
(* Store has held, for any reason.                                         *)

OpportunityArgs ==
    {Opportunity(i, db_opportunity[i].permission_key) : i \in 1..Len(db_opportunity)}
      \ {opportunity_task[t].opportunity :
           t \in {u \in OpportunityTasks : opportunity_task[u].pc = "add_push"}}

AddOpportunity(t) ==
    /\ \/ /\ Len(db_opportunity) < MaxOpportunities
          /\ \E key \in PermissionKeys, ok \in BOOLEAN :
                add_opportunity_insert(t, Opportunity(Len(db_opportunity) + 1, key), ok)
       \/ add_opportunity_push(t)
    /\ UNCHANGED <<storeVars, loopVars, tokenVars, lockVars, supervisorVars>>

RemoveOpportunity(t) ==
    /\ \/ \E opportunity \in OpportunityArgs, reason \in OpportunityRemovalReasons :
            remove_opportunity_retain(t, opportunity, reason)
       \/ \E ok \in BOOLEAN : remove_opportunity_update(t, ok)
    /\ UNCHANGED <<storeVars, loopVars, tokenVars, lockVars, supervisorVars>>

NextOpportunity ==
    \E t \in OpportunityTasks :
        \/ AddOpportunity(t)
        \/ RemoveOpportunity(t)

SpecOpportunity == Init /\ [][NextOpportunity]_vars

----------------------------------------------------------------------------
(* The handlers of start_server, each under fault_tolerant_handler, with   *)
(* loops that end in any of the three ways, the timer and the signal.      *)

Spawn(h) ==
    /\ handler[h].spawns < MaxSpawns
    /\ spawn(h)
    /\ UNCHANGED <<storeVars, loopVars, tokenVars, lockVars, opportunityVars>>

AwaitRes(h) ==
    /\ \E res \in LoopResults : await_res(h, res)
    /\ UNCHANGED <<storeVars, loopVars, tokenVars, lockVars, opportunityVars>>

SleepOver(h) ==
    /\ sleep_over(h)
    /\ UNCHANGED <<storeVars, loopVars, tokenVars, lockVars, opportunityVars>>

Tick ==
    /\ timer < MaxTime
    /\ timer' = timer + BackoffMillis \div 2
    /\ UNCHANGED <<handler, SHOULD_EXIT, outcome>>
    /\ UNCHANGED <<storeVars, loopVars, tokenVars, lockVars, opportunityVars>>

CtrlC ==
    /\ ctrl_c
    /\ UNCHANGED <<storeVars, loopVars, tokenVars, lockVars, opportunityVars>>

Join ==
    /\ start_server_join
    /\ UNCHANGED <<storeVars, loopVars, tokenVars, lockVars, opportunityVars>>

NextSupervisor ==
    \/ \E h \in Handlers :
         \/ Spawn(h)
         \/ AwaitRes(h)
         \/ SleepOver(h)
    \/ Tick
    \/ CtrlC
    \/ Join

SpecSupervisor == Init /\ [][NextSupervisor]_vars

----------------------------------------------------------------------------
(* Properties of the bid state machine under SpecBid.                      *)

LegalTransitions ==
    {<<"pending", "submitted">>, <<"pending", "lost">>,
     <<"submitted", "won">>, <<"submitted", "lost">>}

StepIsLegalTransition ==
    \A id \in BidIds :
        \/ db_bid'[id].status = db_bid[id].status
        \/ <<db_bid[id].status, db_bid'[id].status>> \in LegalTransitions
(* C3: the durable status of a bid changes only along Pending->Submitted,  *)
(* Pending->Lost, Submitted->Won and Submitted->Lost, whatever statuses    *)
(* the concurrent callers request; a Won or Lost row is never changed      *)
(* again.                                                                  *)
C3_OnlyLegalTransitions == [][StepIsLegalTransition]_vars

(* A call asked to move a Won bid to Lost and matched no row.              *)
C3_Witness ==
    \E t \in ApiTasks :
        /\ task[t].pc = "bbsu_index"
        /\ task[t].status.kind = "Lost"
        /\ task[t].rows = 0
        /\ db_bid[task[t].bid.id].status = "won"

EventsOf(id, kind) ==
    {i \in 1..Len(events) : events[i].id = id /\ events[i].bid_status.kind = kind}

(* A step in which a caller requests the status the row already has.       *)
RepeatedRequest(t) ==
    /\ task[t].pc = "idle"
    /\ task'[t].pc = "bbsu_index"
    /\ db_bid[task'[t].bid.id].status = encode_by_ref(task'[t].status)

EachStatusAnnouncedOnce ==
    \A id \in BidIds : \A kind \in {"Pending", "Submitted", "Lost", "Won"} :
        Cardinality(EventsOf(id, kind)) <= 1
RepeatIsNoOp ==
    \A t \in ApiTasks :
        /\ RepeatedRequest(t) => db_bid' = db_bid /\ task'[t].rows = 0
        /\ (task[t].pc = "bbsu_send" /\ task[t].rows = 0 /\ task'[t].pc = "idle")
              => events' = events
(* C4: a transition applied again leaves the durable rows as they are and  *)
(* matches no row; a call that matched no row sends no event; so each      *)
(* status of a bid is announced at most once.                              *)
C4_IdempotentTransition == [](EachStatusAnnouncedOnce) /\ [][RepeatIsNoOp]_vars

(* The Won event of a bid is on the channel and a second Won call for the  *)
(* same bid, which matched no row, is about to return.                     *)
C4_Witness ==
    \E t \in ApiTasks :
        /\ task[t].pc = "bbsu_send"
        /\ task[t].status.kind = "Won"
        /\ task[t].rows = 0
        /\ EventsOf(task[t].bid.id, "Won") # {}

NoRowsNoIndexChange ==
    \A t \in ApiTasks :
        (task[t].pc = "bbsu_index" /\ task[t].rows = 0 /\ task'[t].pc = "bbsu_send")
            => bids' = bids
(* C5: a call whose guarded UPDATE matched no row leaves the bids index    *)
(* exactly as it was.                                                      *)
C5_NoMutationWhenNoRows == [][NoRowsNoIndexChange]_vars

(* C7: a bid whose durable status is Pending has no auction_id.            *)
C7_PendingHasNoAuction ==
    \A id \in BidIds : db_bid[id].status = "pending" => db_bid[id].auction_id = None

(* A call that named an auction matched no row of a bid that is Pending.   *)
C7_Witness ==
    \E t \in ApiTasks :
        /\ task[t].pc = "bbsu_index"
        /\ IsSome(task[t].auction)
        /\ task[t].rows = 0
        /\ db_bid[task[t].bid.id].status = "pending"

----------------------------------------------------------------------------
(* Properties of the server under Spec.                                    *)

Quiescent ==
    /\ \A t \in Tasks : IsIdle(t)
    /\ \A l \in LoopTasks : loop[l].pc = "idle"

SubmittedUnconcluded(key) ==
    {id \in AuctionIds : /\ db_auction[id].key = key
                         /\ IsSome(db_auction[id].submission_time)
                         /\ db_auction[id].conclusion_time = None}

CollectedUnconcluded(key) ==
    {id \in AuctionIds : /\ db_auction[id].key = key
                         /\ IsSome(db_auction[id].bid_collection_time)
                         /\ db_auction[id].conclusion_time = None}

(* C1: for every AuctionKey at most one auction row has submission_time    *)
(* set and conclusion_time null.                                           *)
C1_OneSubmittedAuctionPerKey ==
    \A key \in AuctionKeys : Cardinality(SubmittedUnconcluded(key)) <= 1

(* C2: for every AuctionKey at most one auction row has                    *)
(* bid_collection_time set and conclusion_time null, also after a failed   *)
(* dispatch.                                                               *)
C2_OneCollectingAuctionPerKey ==
    \A key \in AuctionKeys : Cardinality(CollectedUnconcluded(key)) <= 1

(* C6: a bid whose durable status is Submitted or Won has an auction_id,   *)
(* the auction it names has a tx_hash, and the bid's bundle_index is set.  *)
C6_SubmittedOrWonIsBound ==
    \A id \in BidIds :
        db_bid[id].status \in {"submitted", "won"} =>
            /\ IsSome(db_bid[id].auction_id)
            /\ IsSome(db_auction[Unwrap(db_bid[id].auction_id)].tx_hash)
            /\ IsSome(db_bid[id].bundle_index)

(* The tracker has moved a bid of a submitted auction to Won.              *)
C6_Witness ==
    \E id \in BidIds :
        /\ db_bid[id].status = "won"
        /\ IsSome(db_bid[id].auction_id)
        /\ \E r \in TrkTasks : task[r].pc = "bbsu_index" /\ task[r].bid.id = id

IndexedBids(key) ==
    IF key \in DOMAIN bids THEN {bids[key][i].id : i \in 1..Len(bids[key])} ELSE {}

LiveBids(key) ==
    {id \in BidIds : db_bid[id].key = key /\ db_bid[id].status \in {"pending", "submitted"}}

(* C8: when no call is in progress, bids[k] holds exactly the bids of key  *)
(* k whose durable status is Pending or Submitted, also after a restart.   *)
C8_IndexIsLiveBids ==
    Quiescent => \A key \in AuctionKeys : IndexedBids(key) = LiveBids(key)

IndexedAuctions(chain_id) ==
    {get_submitted_auctions(chain_id)[i].id : i \in 1..Len(get_submitted_auctions(chain_id))}

InFlightAuctions(chain_id) ==
    {id \in AuctionIds :
        /\ db_auction[id].key[2] = chain_id
        /\ IsSome(db_auction[id].submission_time)
        /\ db_auction[id].conclusion_time = None
        /\ \E b \in BidIds : /\ db_bid[b].auction_id = Some(id)
                             /\ db_bid[b].status = "submitted"}

(* C9: when no call is in progress, submitted_auctions[chain_id] holds     *)
(* exactly the auctions with submission_time set and conclusion_time null  *)
(* that have a bound bid in status Submitted.                              *)
C9_SubmittedAuctionsIndex ==
    Quiescent => \A chain_id \in ChainIds : IndexedAuctions(chain_id) = InFlightAuctions(chain_id)

InProgress(s) == loop[s].pc \notin {"idle", "wait"}

(* The bids of the key of a submission that its snapshot does not hold.    *)
LateBids(s) ==
    {id \in BidIds : /\ db_bid[id].key = loop[s].key
                     /\ \A i \in 1..Len(loop[s].snapshot) : loop[s].snapshot[i].id # id}

LateBidsUnbound ==
    \A s \in SubTasks :
        (InProgress(s) /\ IsSome(loop[s].auction)) =>
            \A id \in LateBids(s) : db_bid[id].auction_id # Some(Unwrap(loop[s].auction).id)

LateBidsStayPending ==
    \A s \in SubTasks :
        (InProgress(s) /\ loop'[s].pc \notin {"idle", "wait"}) =>
            /\ \A id \in LateBids(s) :
                  db_bid[id].status = "pending" => db_bid'[id].status = "pending"
            /\ \A id \in (1..Len(db_bid')) \ BidIds :
                  db_bid'[id].status = "pending" /\ db_bid'[id].auction_id = None

(* C16: a bid of key k that is not in the snapshot of a submission for k   *)
(* in progress (it was inserted after the snapshot) is not bound to the    *)
(* auction of that submission and, inserted Pending, stays Pending while   *)
(* the submission is in progress.                                          *)
C16_LateBidAwaitsNextTick == [](LateBidsUnbound) /\ [][LateBidsStayPending]_vars

(* A submission has moved its whole bundle to Submitted while a bid added  *)
(* after its snapshot sits in the index, Pending.                          *)
C16_Witness ==
    \E s \in SubTasks :
        /\ loop[s].pc = "bids" /\ loop[s].next > Len(loop[s].bundle) /\ IsIdle(s)
        /\ Len(loop[s].bundle) = Len(loop[s].snapshot)
        /\ \A i \in 1..Len(loop[s].bundle) : db_bid[loop[s].bundle[i].id].status = "submitted"
        /\ \E id \in LateBids(s) :
              /\ db_bid[id].status = "pending"
              /\ \E i \in 1..Len(get_bids(loop[s].key)) : get_bids(loop[s].key)[i].id = id

DurablySubmitted == {id \in BidIds : db_bid[id].status = "submitted"}

(* C19: when no call is in progress, also after a restart, the tracker     *)
(* sees every durably Submitted bid: its auction is in submitted_auctions  *)
(* and the bid is among the bids of that auction in the index.             *)
C19_TrackerSeesSubmittedBids ==
    Quiescent =>
        \A id \in DurablySubmitted :
            \E chain_id \in ChainIds : \E i \in 1..Len(get_submitted_auctions(chain_id)) :
                LET auction == get_submitted_auctions(chain_id)[i] IN
                /\ db_bid[id].auction_id = Some(auction.id)
                /\ \E j \in 1..Len(bids_for_submitted_auction(auction)) :
                      bids_for_submitted_auction(auction)[j].id = id

----------------------------------------------------------------------------
(* Properties of the access-token cache under SpecTokens.                  *)

TokensQuiescent == \A t \in TokenTasks : token_task[t].pc = "idle"

NoFailedCall == \A t \in TokenTasks : token_task[t].ret # "TemporarilyUnavailable"

(* C10: once the calls in progress have completed (none of them with an    *)
(* error), a token is in the cache if and only if its row is not revoked.  *)
C10_CacheAgreesWithTable ==
    (TokensQuiescent /\ NoFailedCall) =>
        \A i \in 1..Len(db_access_token) :
            db_access_token[i].token \in DOMAIN access_tokens <=> ~db_access_token[i].revoked

TokensOf(table) == {table[i].token : i \in 1..Len(table)}

GetOrCreateAnswers ==
    \A t \in TokenTasks :
        /\ (token_task[t].pc = "idle" /\ token_task'[t].pc = "goc_select") =>
              LET profile_id == token_task'[t].profile_id IN
              IF live_tokens(db_access_token, profile_id) = {}
              THEN /\ token_task'[t].rows = 1
                   /\ Len(db_access_token') = Len(db_access_token) + 1
                   /\ db_access_token'[Len(db_access_token')].token \notin TokensOf(db_access_token)
                   /\ live_tokens(db_access_token', profile_id) = {Len(db_access_token')}
              ELSE /\ token_task'[t].rows = 0
                   /\ db_access_token' = db_access_token
        /\ (token_task[t].pc = "goc_select" /\ token_task'[t].pc = "goc_profile") =>
              /\ \E i \in live_tokens(db_access_token, token_task[t].profile_id) :
                    token_task'[t].token = db_access_token[i].token
              /\ token_task'[t].rows = token_task[t].rows
        /\ (token_task[t].pc = "goc_cache" /\ token_task'[t].pc = "idle"
                                           /\ token_task'[t].ret # "none") =>
              /\ token_task'[t].token = token_task[t].token
              /\ token_task'[t].ret = IF token_task[t].rows = 1 THEN "Ok(token, true)"
                                      ELSE "Ok(token, false)"

(* C12: a call for a profile without a live token inserts a token not used *)
(* before and returns it with true; a call for a profile with a live token *)
(* inserts nothing and returns that token with false; so after a revoke    *)
(* the next call returns a different token with true.                      *)
C12_GetOrCreateReturns == [][GetOrCreateAnswers]_vars

(* After the revoke of token 1 a call has returned (2, true).              *)
C12_Witness ==
    \E t \in TokenTasks :
        /\ token_task[t].pc = "idle"
        /\ token_task[t].ret = "Ok(token, true)"
        /\ token_task[t].token = 2
        /\ db_access_token[1].revoked

----------------------------------------------------------------------------
(* Properties of the per-key locks under SpecLock.                         *)

(* C13: for every AuctionKey at most one task holds the lock of the key,   *)
(* whichever lock objects were created for the key.                        *)
C13_OneHolderPerKey ==
    \A t1 \in LockTasks, t2 \in LockTasks :
        (t1 # t2 /\ lock_task[t1].guard /\ lock_task[t2].guard)
            => lock_task[t1].key # lock_task[t2].key

(* A second lock object was created for a key after the first was removed; *)
(* one task holds it and the other waits for it.                           *)
C13_Witness ==
    \E t1 \in LockTasks, t2 \in LockTasks :
        /\ t1 # t2
        /\ lock_task[t1].guard
        /\ lock_task[t1].arc = 2
        /\ lock_task[t2].arc = 2 /\ ~lock_task[t2].guard
        /\ lock_task[t1].key = lock_task[t2].key
        /\ \E t \in LockTasks : IsSome(lock_task[t].removing)

ReferencedEntriesStay ==
    \A t \in LockTasks :
        lock_task[t].arc # 0 =>
            /\ lock_task[t].key \in DOMAIN lock_entries
            /\ lock_entries[lock_task[t].key] = lock_task[t].arc

RemovesIffUnreferenced ==
    \A t \in LockTasks :
        (IsSome(lock_task[t].removing) /\ lock_task'[t].removing = None) =>
            LET key == Unwrap(lock_task[t].removing) IN
            IF /\ key \in DOMAIN lock_entries
               /\ \A u \in LockTasks : lock_task[u].arc # lock_entries[key]
            THEN key \notin DOMAIN lock_entries'
            ELSE lock_entries' = lock_entries

(* C14: remove_auction_lock removes the entry of the key exactly when no   *)
(* task has a reference to its lock; the entry of a lock that a task holds *)
(* or waits on stays in the map.                                           *)
C14_RemoveOnlyUnreferenced == [](ReferencedEntriesStay) /\ [][RemovesIffUnreferenced]_vars

(* remove_auction_lock runs for a key whose lock one task holds and the    *)
(* other waits on.                                                         *)
C14_Witness ==
    \E t \in LockTasks, u \in LockTasks :
        /\ IsSome(lock_task[t].removing)
        /\ Unwrap(lock_task[t].removing) = lock_task[u].key
        /\ lock_task[u].arc # 0 /\ ~lock_task[u].guard
        /\ mutexes[lock_task[u].arc] \notin {"", u}

----------------------------------------------------------------------------
(* Properties of parallel submission attempts under SpecSubmit.            *)

SubmittedRows(key) ==
    {id \in AuctionIds : db_auction[id].key = key /\ IsSome(db_auction[id].submission_time)}

SubmittedEntries(key) ==
    {i \in 1..Len(get_submitted_auctions(key[2])) : get_submitted_auctions(key[2])[i].key = key}

NoStoreCallFailed == \A s \in SubTasks : task[s].ret \in {"none", "Ok"}

(* C15: of the submission attempts launched in parallel for one key at     *)
(* most one submits an auction (one row with submission_time set, one      *)
(* entry in submitted_auctions), also when no Store call of an attempt     *)
(* failed.                                                                 *)
C15_OneSubmissionPerLaunch ==
    NoStoreCallFailed =>
        \A key \in AuctionKeys :
            /\ Cardinality(SubmittedRows(key)) <= 1
            /\ Cardinality(SubmittedEntries(key)) <= 1

----------------------------------------------------------------------------
(* Properties of the persisted status under SpecStatus.                    *)

LastEvent(id) ==
    events[CHOOSE i \in 1..Len(events) :
              /\ events[i].id = id
              /\ \A j \in (i + 1)..Len(events) : events[j].id # id]

----------------------------------------------------------------------------
(* Properties of opportunities under SpecOpportunity.                      *)

(* add_opportunity returns Ok with the opportunity in the Store, and an    *)
(* opportunity leaves the Store only in a remove_opportunity for it.       *)
AddedOpportunityExists ==
    /\ \A t \in OpportunityTasks :
          opportunity_task[t].pc = "add_push" /\ opportunity_task'[t].pc = "idle"
              => opportunity_exists(opportunity_task[t].opportunity)'
    /\ \A o \in OpportunityArgs :
          opportunity_exists(o) /\ ~opportunity_exists(o)'
              => \E t \in OpportunityTasks :
                    /\ opportunity_task[t].pc = "idle"
                    /\ opportunity_task'[t].pc = "remove_update"
                    /\ opportunity_task'[t].opportunity = o

(* A remove_opportunity whose UPDATE is executed on a row that has no      *)
(* removal_time sets the time the call read and its reason; a row that has *)
(* a removal_time is never changed.                                        *)
RemovalSetOnce ==
    \A id \in 1..Len(db_opportunity) :
        /\ IsSome(db_opportunity[id].removal_time) => db_opportunity'[id] = db_opportunity[id]
        /\ IsSome(db_opportunity'[id].removal_time) <=> IsSome(db_opportunity'[id].removal_reason)
        /\ \A t \in OpportunityTasks :
              /\ opportunity_task[t].pc = "remove_update"
              /\ opportunity_task'[t].ret = "Ok"
              /\ opportunity_task[t].opportunity.id = id
              /\ db_opportunity[id].removal_time = None
              => /\ db_opportunity'[id].removal_time = Some(opportunity_task[t].now)
                 /\ db_opportunity'[id].removal_reason = Some(opportunity_task[t].reason)

(* C18: after add_opportunity(o), opportunity_exists(o) is true;           *)
(* remove_opportunity sets removal_time and removal_reason once, and a     *)
(* later remove_opportunity of the same opportunity changes neither.       *)
C18_OpportunityLifecycle == [][AddedOpportunityExists /\ RemovalSetOnce]_vars

(* A remove_opportunity has returned Ok for an opportunity that was        *)
(* removed before for another reason, while an added opportunity exists.   *)
C18_Witness ==
    /\ \E t \in OpportunityTasks :
          /\ opportunity_task[t].pc = "idle"
          /\ opportunity_task[t].ret = "Ok"
          /\ opportunity_task[t].reason \in OpportunityRemovalReasons
          /\ IsSome(db_opportunity[opportunity_task[t].opportunity.id].removal_reason)
          /\ db_opportunity[opportunity_task[t].opportunity.id].removal_reason
                # Some(opportunity_task[t].reason)
    /\ \E t \in OpportunityTasks :
          /\ opportunity_task[t].pc = "idle"
          /\ opportunity_task[t].ret = "Ok"
          /\ opportunity_task[t].reason = ""
          /\ opportunity_exists(opportunity_task[t].opportunity)

----------------------------------------------------------------------------
(* Properties of fault_tolerant_handler under SpecSupervisor.              *)

(* What a handler does when its loop has ended, and after.                 *)
HandlerStep(h) ==
    /\ handler[h].pc = "await" /\ handler'[h].pc # "await" =>
          CASE handler'[h].res = "Ok" ->
                  handler'[h].pc = "done" /\ SHOULD_EXIT' = SHOULD_EXIT
            [] handler'[h].res = "Err" ->
                  /\ handler'[h].pc = "sleep"
                  /\ handler'[h].wake = timer + BackoffMillis
                  /\ SHOULD_EXIT' = SHOULD_EXIT
            [] handler'[h].res = "JoinError" ->
                  handler'[h].pc = "done" /\ SHOULD_EXIT'
    /\ handler[h].pc = "sleep" /\ handler'[h].pc # "sleep" =>
          handler'[h].pc = "loop" /\ timer >= handler[h].wake
    /\ handler'[h].spawns > handler[h].spawns =>
          /\ handler[h].pc = "loop"
          /\ handler[h].res \in {"none", "Err"}
    /\ handler[h].pc = "done" => handler'[h] = handler[h]
    /\ SHOULD_EXIT => SHOULD_EXIT'

(* C20: the wrapper restarts the loop 500 ms after it returned an error,   *)
(* stops when it returned Ok, and when it panicked or was cancelled sets   *)
(* the shutdown flag and never restarts it.                                *)
C20_Supervisor == [][\A h \in Handlers : HandlerStep(h)]_vars

(* One loop was restarted after an error, one stopped on Ok with the flag  *)
(* unset before, and one panicked: the flag is set, none of the two runs.  *)
C20_Witness ==
    /\ \E h \in Handlers : handler[h].spawns > 1 /\ handler[h].pc = "await"
    /\ \E h \in Handlers : handler[h].pc = "done" /\ handler[h].res = "Ok"
    /\ \E h \in Handlers : handler[h].pc = "done" /\ handler[h].res = "JoinError"
    /\ SHOULD_EXIT

(* Some supervised loop panicked or was cancelled.                         *)
LoopPanicked == \E h \in Handlers : handler[h].res = "JoinError"

(* C21: the outcome of the server is success on graceful shutdown and a    *)
(* failure if and only if a supervised loop panicked: when start_server    *)
(* has returned Ok(()), no loop has panicked.                              *)
C21_FailureIffPanic ==
    IsSome(outcome) => (Unwrap(outcome) = "Ok(())" <=> ~LoopPanicked)

----------------------------------------------------------------------------
(* Properties of the Store's bid operations under SpecBid, continued.      *)

(* A step that is a request for Pending returns the error of the Pending   *)
(* arm, and a step that returns that error changes no row, no entry of the *)
(* index and no event.                                                     *)
PendingRequestRefused ==
    \A t \in ApiTasks :
        /\ \A bid \in BidArgs, auction \in OptAuctionArgs, ok \in BOOLEAN :
              broadcast_bid_status_and_update_execute(t, bid, Pending, auction, ok)
                  => task'[t] = Idle("Err(cannot remain pending)")
        /\ IsIdle(t) /\ task'[t] # task[t] /\ task'[t] = Idle("Err(cannot remain pending)")
              => /\ db_bid' = db_bid
                 /\ bids' = bids
                 /\ events' = events

(* C22: a request for Pending through broadcast_bid_status_and_update is   *)
(* an error whatever the status of the bid, and leaves the bid row, the    *)
(* index and the event channel unchanged.                                  *)
C22_PendingRequestRejected == [][PendingRequestRefused]_vars

(* A request for Pending has been refused while a bid is pending in the    *)
(* index and another bid has left pending.                                 *)
C22_Witness ==
    /\ \E t \in ApiTasks : task[t] = Idle("Err(cannot remain pending)")
    /\ \E id \in 1..Len(db_bid) : db_bid[id].status # "pending"
    /\ bids # EmptyMap

----------------------------------------------------------------------------
(* Progress of the lock operations under SpecLock.                         *)

(* The task is suspended in lock().await of a per-key lock another holds.  *)
WaitsForLock(t) ==
    /\ lock_task[t].arc # 0
    /\ ~lock_task[t].guard
    /\ mutexes[lock_task[t].arc] # ""

Holder(t) == mutexes[lock_task[t].arc]

(* C23: no deadlock.  A task that waits for a per-key lock waits for a     *)
(* task that holds its guard, waits for no per-key lock itself and can     *)
(* drop the guard; a task that waits for the map's mutex in                *)
(* remove_auction_lock can take it; some task can always take a step.      *)
C23_NoDeadlock ==
    /\ \A t \in LockTasks :
          WaitsForLock(t) =>
              /\ Holder(t) \in LockTasks \ {t}
              /\ lock_task[Holder(t)].guard
              /\ lock_task[Holder(t)].arc = lock_task[t].arc
              /\ ~WaitsForLock(Holder(t))
              /\ ENABLED drop_guard(Holder(t))
    /\ \A t \in LockTasks :
          IsSome(lock_task[t].removing) => ENABLED RemoveAuctionLock(t)
    /\ \A t \in LockTasks :
          lock_task[t].arc # 0 /\ ~lock_task[t].guard /\ ~WaitsForLock(t)
              => ENABLED lock(t)
    /\ ENABLED NextLock

(* A task waits for the per-key lock that another task holds while that    *)
(* task is inside remove_auction_lock.                                     *)
C23_Witness ==
    \E t \in LockTasks :
        /\ WaitsForLock(t)
        /\ IsSome(lock_task[Holder(t)].removing)
        /\ lock_task[Holder(t)].guard

----------------------------------------------------------------------------
(* Properties of opportunities under SpecOpportunity, continued.           *)

RemovalInProgress(o) ==
    \E t \in OpportunityTasks :
        opportunity_task[t].pc = "remove_update" /\ opportunity_task[t].opportunity = o

(* C24: the index of opportunities is changed only when the durable write  *)
(* succeeded: an opportunity that was added, that no remove_opportunity is *)
(* working on and whose row has no removal written is in the index.        *)
C24_OpportunityWriteThrough ==
    \A o \in OpportunityArgs :
        (db_opportunity[o.id].removal_time = None /\ ~RemovalInProgress(o))
            => opportunity_exists(o)

----------------------------------------------------------------------------
(* Properties of the auction operations under SpecAuction.                 *)

(* C25: submit_auction sets submission_time and tx_hash only when          *)
(* submission_time is null and appends the auction to submitted_auctions   *)
(* when that update succeeded; on an auction already submitted it changes  *)
(* neither the row nor the index.  So every entry of submitted_auctions is *)
(* its auction as the row has it submitted, and no auction is there twice. *)
C25_SubmitOnce ==
    \A chain_id \in DOMAIN submitted_auctions :
        \A i \in 1..Len(submitted_auctions[chain_id]) :
            LET entry == submitted_auctions[chain_id][i] IN
            /\ db_auction[entry.id].submission_time = entry.submission_time
            /\ db_auction[entry.id].tx_hash = entry.tx_hash
            /\ \A j \in 1..Len(submitted_auctions[chain_id]) :
                  submitted_auctions[chain_id][j].id = entry.id => j = i

(* conclude_auction writes conclusion_time on a row that has none, and a   *)
(* conclusion_time that is set never changes.                              *)
ConcludedOnce ==
    /\ \A id \in AuctionIds :
          IsSome(db_auction[id].conclusion_time)
              => db_auction'[id].conclusion_time = db_auction[id].conclusion_time
    /\ \A t \in AuctionTasks, auction \in AuctionArgs :
          (conclude_auction(t, auction, TRUE) /\ auction.conclusion_time = None)
              => db_auction'[auction.id].conclusion_time = Some(now_utc)

(* remove_submitted_auction takes the auction out of submitted_auctions    *)
(* when no bid of the index is Submitted with its tx_hash, and returns     *)
(* with the index as it was otherwise.                                     *)
RemovedOnlyUnreferenced ==
    \A t \in AuctionTasks :
        /\ (task[t].pc = "remove_submitted_auction_retain" /\ task'[t].pc = "idle")
              => /\ bids_for_submitted_auction(Unwrap(task[t].auction)) = <<>>
                 /\ submitted_auctions' =
                       retain_submitted_auctions(submitted_auctions, Unwrap(task[t].auction))
        /\ \A auction \in AuctionArgs \cup IndexedAuctionArgs :
              (remove_submitted_auction_check(t, auction)
                 /\ bids_for_submitted_auction(auction) # <<>>)
                  => task'[t].pc = "idle" /\ submitted_auctions' = submitted_auctions

(* C26: conclude_auction sets conclusion_time only when it is null, and    *)
(* remove_submitted_auction removes the auction only if no bid of the      *)
(* index is Submitted with the auction's tx_hash.                          *)
C26_ConcludeAndRemove == [][ConcludedOnce /\ RemovedOnlyUnreferenced]_vars

----------------------------------------------------------------------------
(* Properties of the tracker under Spec.                                   *)

(* The bids bound to an auction that are still submitted, by the rows.     *)
BoundSubmitted(auction_id) ==
    {id \in BidIds : /\ db_bid[id].auction_id = Some(auction_id)
                     /\ db_bid[id].status = "submitted"}

(* C27: the conclusion_time of an auction is set only when none of its     *)
(* bound bids is still Submitted (and the tracker eventually concludes and *)
(* removes every auction whose bound bids are all Won or Lost).            *)
C27_ConcludedWhenBidsTerminal ==
    [][\A id \in AuctionIds :
          (db_auction[id].conclusion_time = None /\ IsSome(db_auction'[id].conclusion_time))
              => BoundSubmitted(id) = {}]_vars

----------------------------------------------------------------------------
(* Properties of the bids index under SpecIndex.                           *)

PositionsOf(index, bid) ==
    {i \in 1..Len(index[get_auction_key(bid)]) : index[get_auction_key(bid)][i].id = bid.id}

(* What the update_bid of a call does to the index: the bid with the id    *)
(* replaced where it is, or nothing when the key or the id is not there.   *)
UpdateInPlace(t) ==
    LET bid == update_status(task[t].bid, task[t].status)
        key == get_auction_key(bid) IN
    IF key \in DOMAIN bids /\ PositionsOf(bids, bid) # {}
    THEN /\ DOMAIN bids' = DOMAIN bids
         /\ \A k \in DOMAIN bids \ {key} : bids'[k] = bids[k]
         /\ Len(bids'[key]) = Len(bids[key])
         /\ \A i \in 1..Len(bids[key]) :
               bids'[key][i] = IF i \in PositionsOf(bids, bid) THEN bid ELSE bids[key][i]
    ELSE bids' = bids

(* C28: update_bid replaces in place the bid with the same id under the    *)
(* bid's key; with no entry for the key or no bid with the id it leaves    *)
(* the index unchanged and the call goes on without an error.              *)
C28_UpdateBidInPlace ==
    [][\A t \in IntakeTasks :
          (task[t].pc = "bbsu_index" /\ task[t].status.kind = "Submitted")
              => /\ UpdateInPlace(t)
                 /\ task'[t].pc = "bbsu_send"]_vars

(* update_bid has run for a bid that is not under its key while another    *)
(* bid is, and the index has a bid that was updated in place before one    *)
(* that was not.                                                           *)
C28_Witness ==
    /\ \E t \in IntakeTasks :
          /\ task[t].pc = "bbsu_send"
          /\ task[t].status.kind = "Submitted"
          /\ get_auction_key(task[t].bid) \in DOMAIN bids
          /\ PositionsOf(bids, task[t].bid) = {}
    /\ \E key \in DOMAIN bids :
          /\ Len(bids[key]) > 1
          /\ bids[key][1].status.kind = "Submitted"
          /\ bids[key][2].status.kind = "Pending"

(* C29: the bids under a key are in the order in which add_bid inserted    *)
(* them, after any updates and removals: one caller's bids get their ids   *)
(* in the order of its add_bid calls, so the ids under a key go up.        *)
C29_InsertionOrder ==
    \A key \in DOMAIN bids :
        \A i \in 1..Len(bids[key]), j \in 1..Len(bids[key]) :
            i < j => bids[key][i].id < bids[key][j].id

(* Three bids were added under one key; the second was removed and the     *)
(* third updated.                                                          *)
C29_Witness ==
    \E key \in DOMAIN bids :
        /\ Len(bids[key]) = 2
        /\ bids[key][1].id = 1
        /\ bids[key][2].id = 3
        /\ bids[key][2].status.kind = "Submitted"
        /\ Len(db_bid) = 3
        /\ db_bid[2].key = key

----------------------------------------------------------------------------
(* Properties of add_bid under SpecBid.                                    *)

(* The steps of add_bid: a failed INSERT returns TemporarilyUnavailable    *)
(* with no row, no entry and no event; after the INSERT the bid is         *)
(* appended under its key, and then one event with its id and status is    *)
(* sent and Ok returned.                                                   *)
AddBidSteps(t) ==
    /\ (IsIdle(t) /\ task'[t] # task[t] /\ task'[t] = Idle("TemporarilyUnavailable"))
          => /\ db_bid' = db_bid
             /\ bids' = bids
             /\ events' = events
    /\ (IsIdle(t) /\ task'[t].pc = "add_bid_push")
          => /\ Len(db_bid') = Len(db_bid) + 1
             /\ task'[t].bid.id = Len(db_bid')
             /\ bids' = bids
             /\ events' = events
    /\ task[t].pc = "add_bid_push"
          => /\ task'[t].pc = "add_bid_send"
             /\ bids'[get_auction_key(task[t].bid)]
                   = Append(get_bids(get_auction_key(task[t].bid)), task[t].bid)
             /\ \A key \in DOMAIN bids \ {get_auction_key(task[t].bid)} : bids'[key] = bids[key]
             /\ events' = events
    /\ task[t].pc = "add_bid_send"
          => /\ task'[t] = Idle("Ok")
             /\ events' = Append(events, [id |-> task[t].bid.id,
                                          bid_status |-> task[t].bid.status])
             /\ bids' = bids

(* C30: when the INSERT of add_bid fails it returns TemporarilyUnavailable *)
(* with the index and the channel untouched; when it succeeds the bid is   *)
(* appended to bids[key] and exactly one event with its id and status is   *)
(* emitted.                                                                *)
C30_AddBidOutcome ==
    [][\A t \in ApiTasks :
          (task'[t] # task[t] /\ (task[t].pc \in {"add_bid_push", "add_bid_send"}
                                   \/ task'[t].pc = "add_bid_push"
                                   \/ task'[t] = Idle("TemporarilyUnavailable")))
              => AddBidSteps(t)]_vars

(* One add_bid failed and another succeeded: the bid is in the index and   *)
(* its one event is on the channel.                                        *)
C30_Witness ==
    /\ \E t \in ApiTasks : task[t] = Idle("TemporarilyUnavailable")
    /\ \E t \in ApiTasks : task[t] = Idle("Ok")
    /\ Len(db_bid) = 1
    /\ Len(get_bids(db_bid[1].key)) = 1
    /\ events = <<[id |-> 1, bid_status |-> Pending]>>

----------------------------------------------------------------------------
(* The shutdown flag under SpecSupervisor.                                 *)

(* C31: the global shutdown flag is monotonic: once it is set, by the      *)
(* interrupt handler or by the panic of a supervised loop, it stays set    *)
(* in every later state; no step clears it.                                *)
C31_ShutdownIsMonotonic == [][SHOULD_EXIT => SHOULD_EXIT']_vars

(* The flag was set by the interrupt handler (no loop panicked), and then  *)
(* a loop that returned an error was restarted, every loop ended and       *)
(* start_server returned: the flag is still set.                           *)
C31_Witness ==
    /\ SHOULD_EXIT
    /\ ~LoopPanicked
    /\ \E h \in Handlers : handler[h].spawns > 1
    /\ IsSome(outcome)

----------------------------------------------------------------------------
(* Shutdown.  The handlers under fault_tolerant_handler with loops that    *)
(* watch the flag: an invocation that ends while SHOULD_EXIT is set ends   *)
(* with Ok; before that it ends in any of the three ways.  A handler that  *)
(* comes round its loop spawns again, whatever the flag says; time is      *)
(* counted while some handler sleeps.  The runtime schedules every task    *)
(* that can run, timers fire, and a loop that sees the flag returns: each  *)
(* of these steps is taken if it stays possible.                           *)

SpawnAgain(h) ==
    /\ handler[h].spawns < MaxSpawns \/ SHOULD_EXIT
    /\ spawn(h)
    /\ UNCHANGED <<storeVars, loopVars, tokenVars, lockVars, opportunityVars>>

LoopEnds(h) ==
    /\ \E res \in (IF SHOULD_EXIT THEN {"Ok"} ELSE LoopResults) : await_res(h, res)
    /\ UNCHANGED <<storeVars, loopVars, tokenVars, lockVars, opportunityVars>>

LoopSeesFlag(h) == SHOULD_EXIT /\ LoopEnds(h)

Clock ==
    /\ \E h \in Handlers : handler[h].pc = "sleep" /\ timer < handler[h].wake
    /\ timer' = timer + BackoffMillis \div 2
    /\ UNCHANGED <<handler, SHOULD_EXIT, outcome>>
    /\ UNCHANGED <<storeVars, loopVars, tokenVars, lockVars, opportunityVars>>

NextShutdown ==
    \/ \E h \in Handlers :
         \/ SpawnAgain(h)
         \/ LoopEnds(h)
         \/ SleepOver(h)
    \/ Clock
    \/ CtrlC
    \/ Join

SpecShutdown ==
    /\ Init /\ [][NextShutdown]_vars
    /\ \A h \in Handlers :
          WF_vars(SpawnAgain(h)) /\ WF_vars(LoopSeesFlag(h)) /\ WF_vars(SleepOver(h))
    /\ WF_vars(Clock)
    /\ WF_vars(Join)

----------------------------------------------------------------------------
(* Two concurrent requesters of transitions, such as two submission        *)
(* attempts: one caller adds a bid and creates and submits auctions, and   *)
(* both request, for a bid of the index, a transition of the state machine *)
(* from the status the index shows.                                        *)

NextRace ==
    \/ \E t \in IntakeTasks :
         \/ AddBid(t)
         \/ CreateAuction(t)
         \/ SubmitAuction(t)
    \/ \E t \in ApiTasks : RequestTransition(t)

SpecRace == Init /\ [][NextRace]_vars

----------------------------------------------------------------------------
(* The guards of the in-memory structures.  Every frame position is an     *)
(* await of a Store operation; guards_held gives the RwLock and Mutex      *)
(* guards of the Store that are alive across that await.                   *)

Structures == {"bids", "submitted_auctions", "auction_lock", "access_tokens", "opportunities"}

guards_held_to_end_of_scope(pc) ==
    IF pc = "remove_update" THEN {"opportunities"} ELSE {}

guards_held(pc) ==
    CASE pc = "add_bid_push" -> {}       \* the INSERT is awaited before bids.write()
      [] pc = "add_bid_send" -> {}       \* the write guard is a temporary of the push
      [] pc = "bbsu_index" -> {}         \* the UPDATE is awaited before update_bid, remove_bid
      [] pc = "bbsu_send" -> {}          \* write_guard ends with update_bid, remove_bid
      [] pc = "submit_auction_push" -> {}
      [] pc = "remove_submitted_auction_retain" -> {}  \* the read guard ends in get_bids
      [] pc = "add_push" -> {}
      [] pc = "remove_update" -> {}      \* drop(write_guard) comes before the UPDATE
      [] pc = "goc_select" -> {}
      [] pc = "goc_profile" -> {}
      [] pc = "goc_cache" -> {}          \* the three queries are awaited before write()
      [] pc = "revoke_remove" -> {}
      [] OTHER -> {}

----------------------------------------------------------------------------
(* One caller in the operations that take the lock of an in-memory         *)
(* structure of the Store, one structure at a time: the bids and the       *)
(* submitted auctions, or the opportunities, or the access tokens, or the  *)
(* map of auction locks.                                                   *)

BidsUnused ==
    /\ db_bid = <<>> /\ db_auction = <<>>
    /\ task = [t \in Tasks |-> Idle("none")]
OpportunitiesUnused ==
    /\ db_opportunity = <<>>
    /\ opportunity_task = [t \in OpportunityTasks |-> OpportunityIdle("none")]
TokensUnused ==
    /\ db_access_token = <<>>
    /\ token_task = [t \in TokenTasks |-> TokenIdle("none")]
LocksUnused ==
    /\ mutexes = <<>>
    /\ lock_task = [t \in LockTasks |-> NoLock]

NextGuards ==
    \/ /\ OpportunitiesUnused /\ TokensUnused /\ LocksUnused
       /\ \E t \in IntakeTasks :
            \/ Intake(t)
            \/ InitAuction(t)
            \/ SubmitHeldAuction(t)
            \/ RequestTransition(t)
            \/ RemoveSubmittedAuction(t)
    \/ /\ BidsUnused /\ TokensUnused /\ LocksUnused
       /\ \E t \in {"o1"} :
            \/ AddOpportunity(t)
            \/ RemoveOpportunity(t)
    \/ /\ BidsUnused /\ OpportunitiesUnused /\ LocksUnused
       /\ \E t \in {"a1"} :
            \/ GetOrCreateAccessToken(t)
            \/ RevokeAccessToken(t)
    \/ /\ BidsUnused /\ OpportunitiesUnused /\ TokensUnused
       /\ \E t \in {"k1"} :
            \/ GetAuctionLock(t)
            \/ UseAuctionLock(t)
            \/ RemoveAuctionLock(t)

SpecGuards == Init /\ [][NextGuards]_vars

----------------------------------------------------------------------------
(* Lock scopes of the Store under SpecGuards.                              *)

(* The in-memory structures a step changes: each is changed under its own  *)
(* lock only.                                                              *)
ChangedStructures ==
    (IF bids' # bids THEN {"bids"} ELSE {})
    \cup (IF submitted_auctions' # submitted_auctions THEN {"submitted_auctions"} ELSE {})
    \cup (IF lock_entries' # lock_entries THEN {"auction_lock"} ELSE {})
    \cup (IF access_tokens' # access_tokens THEN {"access_tokens"} ELSE {})
    \cup (IF opportunities' # opportunities THEN {"opportunities"} ELSE {})

(* The step is a database call: a table changes, or a call goes past a     *)
(* query that changes none.                                                *)
DatabaseCall ==
    \/ <<db_bid, db_auction, db_access_token, db_opportunity>>'
         # <<db_bid, db_auction, db_access_token, db_opportunity>>
    \/ \E t \in TokenTasks : /\ token_task[t].pc \in {"goc_select", "goc_profile"}
                             /\ token_task'[t] # token_task[t]
    \/ \E t \in OpportunityTasks : /\ opportunity_task[t].pc = "remove_update"
                                   /\ opportunity_task'[t] # opportunity_task[t]

(* The guards of all the calls in flight.                                  *)
GuardsInFlight ==
    UNION ({guards_held(task[t].pc) : t \in Tasks}
           \cup {guards_held(token_task[t].pc) : t \in TokenTasks}
           \cup {guards_held(opportunity_task[t].pc) : t \in OpportunityTasks})

----------------------------------------------------------------------------
(* The index and the tables under two concurrent requesters.               *)

(* No transition of the bid is in progress.                                *)
NoTransitionOf(id) == \A t \in Tasks : IsIdle(t) \/ task[t].bid.id # id

(* C33: for every bid of the bids index with no transition in progress,    *)
(* the status the index holds equals the status reconstructed from the     *)
(* bid's row and the auction row it names.                                 *)
C33_IndexAgreesWithRows ==
    \A bid \in IndexedBidArgs :
        NoTransitionOf(bid.id) => reload_status(bid.id) = Some(bid.status)

----------------------------------------------------------------------------
(* The index of submitted auctions against table auction, under            *)
(* SpecAuction.                                                            *)

(* C34: submitted_auctions[chain_id] never holds two records with the same *)
(* auction id, and every record of it carries the tx_hash and the          *)
(* submission_time of the auction's row, after any sequence of             *)
(* submit_auction calls.                                                   *)
C34_SubmittedAuctionsMatchRows ==
    \A chain_id \in DOMAIN submitted_auctions :
        LET auctions == submitted_auctions[chain_id] IN
        /\ \A i, j \in 1..Len(auctions) : auctions[i].id = auctions[j].id => i = j
        /\ \A i \in 1..Len(auctions) :
              /\ auctions[i].tx_hash = db_auction[auctions[i].id].tx_hash
              /\ auctions[i].submission_time = db_auction[auctions[i].id].submission_time

----------------------------------------------------------------------------
(* Revoked tokens under SpecTokens.                                        *)

(* revoke_access_token(token) has returned Ok: the row is revoked and no   *)
(* revoke of the token is still before its removal from the cache.         *)
RevokeReturned(token) ==
    /\ \E i \in 1..Len(db_access_token) :
          db_access_token[i].token = token /\ db_access_token[i].revoked
    /\ \A t \in TokenTasks :
          ~(token_task[t].pc = "revoke_remove" /\ token_task[t].token = token)

(* C35: once revoke_access_token(token) has returned successfully,         *)
(* get_profile_by_token(token) returns InvalidToken in every later state,  *)
(* also when a get_or_create_access_token call for the same profile was in *)
(* progress during the revocation.                                         *)
C35_RevokedTokenStaysInvalid ==
    \A token \in TokensOf(db_access_token) :
        RevokeReturned(token) => get_profile_by_token(token) = "InvalidToken"

----------------------------------------------------------------------------
(* The order of the status events of a bid, under Spec.                    *)

(* The place of a status in the state machine.                             *)
StatusRank(status) ==
    CASE status.kind = "Pending" -> 0
      [] status.kind = "Submitted" -> 1
      [] status.kind \in {"Won", "Lost"} -> 2

(* The events sent for one bid, in the order of the channel.               *)
EventsOfBid(id) == SelectSeq(events, LAMBDA e : e.id = id)

(* C36: the status events of one bid are in state-machine order: the       *)
(* Pending event of add_bid first, then at most one Submitted event, then  *)
(* at most one Won or Lost event, and none after it.                       *)
C36_EventsInOrder ==
    \A id \in BidIds :
        LET sent == EventsOfBid(id) IN
        /\ sent # <<>> => sent[1].bid_status.kind = "Pending"
        /\ \A i, j \in 1..Len(sent) :
              i < j => StatusRank(sent[i].bid_status) < StatusRank(sent[j].bid_status)

----------------------------------------------------------------------------
(* Failed transition calls under SpecBid.                                  *)

(* The call fails before any row is written: the database returns an       *)
(* error, or Submitted is requested without an auction.                    *)
TransitionFails(updated_status, auction, ok) ==
    \/ ~ok
    \/ updated_status.kind = "Submitted" /\ ~IsSome(auction)

FailedTransitionLeavesNoTrace ==
    \A t \in ApiTasks :
        /\ \A bid \in BidArgs, updated_status \in BidStatuses(CallerHashes) \ {Pending},
              auction \in OptAuctionArgs, ok \in BOOLEAN :
              (/\ TransitionFails(updated_status, auction, ok)
               /\ broadcast_bid_status_and_update_execute(t, bid, updated_status, auction, ok))
                  => /\ task'[t] = Idle("Err")
                     /\ db_bid' = db_bid
                     /\ bids' = bids
                     /\ events' = events
        /\ IsIdle(t) /\ task'[t] # task[t] /\ task'[t] = Idle("Err")
              => /\ db_bid' = db_bid
                 /\ bids' = bids
                 /\ events' = events

(* C37: when the guarded UPDATE of broadcast_bid_status_and_update fails   *)
(* with a database error, or when Submitted is requested without an        *)
(* auction, the call returns the error, leaves the bids index (and the bid *)
(* row) unchanged and sends no status event.                               *)
C37_FailedTransitionNoEffect == [][FailedTransitionLeavesNoTrace]_vars

(* A call has returned the error while the bid is pending in the index and *)
(* in its row, with its Pending event the only one sent.                   *)
C37_Witness ==
    /\ \E t \in ApiTasks : task[t] = Idle("Err")
    /\ \A t \in ApiTasks : IsIdle(t)
    /\ \E bid \in IndexedBidArgs :
          /\ bid.status = Pending
          /\ db_bid[bid.id].status = "pending"
          /\ Len(EventsOfBid(bid.id)) = 1
    /\ db_auction = <<>>

----------------------------------------------------------------------------
(* Shutdown under SpecShutdown.                                            *)

AllHandlersDone == \A h \in Handlers : handler[h].pc = "done"

(* A handler that comes round its loop spawns again and a sleep that is    *)
(* over ends, whether or not the flag is set.                              *)
RestartsWhateverTheFlag ==
    \A h \in Handlers :
        /\ handler[h].pc = "loop" => ENABLED spawn(h)
        /\ handler[h].pc = "sleep" /\ timer >= handler[h].wake => ENABLED sleep_over(h)

(* C38: when the shutdown flag is set and every loop returns Ok once it    *)
(* sees the flag, every fault_tolerant_handler eventually terminates and   *)
(* start_server eventually returns; start_server closes and awaits the     *)
(* task tracker and returns only after all the handlers have terminated;   *)
(* a handler whose loop returned Err is restarted also when the flag is    *)
(* set.                                                                    *)
C38_ShutdownCompletes ==
    /\ SHOULD_EXIT ~> AllHandlersDone
    /\ SHOULD_EXIT ~> IsSome(outcome)
    /\ [](IsSome(outcome) => AllHandlersDone)
    /\ []RestartsWhateverTheFlag

(* The flag is set while a handler whose loop returned Err sleeps, and     *)
(* another handler's loop still runs.                                      *)
C38_Witness ==
    /\ SHOULD_EXIT
    /\ \E h \in Handlers : handler[h].pc = "sleep" /\ handler[h].res = "Err"
    /\ \E h \in Handlers : handler[h].pc = "await"
    /\ outcome = None

----------------------------------------------------------------------------
(* The entries of the in-memory indexes under SpecGuards.                  *)

(* No index maps a key to an empty sequence.                               *)
NoEmptyEntry ==
    /\ \A key \in DOMAIN bids : bids[key] # <<>>
    /\ \A chain_id \in DOMAIN submitted_auctions : submitted_auctions[chain_id] # <<>>
    /\ \A permission_key \in DOMAIN opportunities : opportunities[permission_key] # <<>>

(* The permission keys with a bid of the index on the chain that is        *)
(* Pending or Submitted.                                                   *)
KeysWithLiveBids(chain_id) ==
    {bid.key[1] : bid \in {b \in IndexedBidArgs :
                              /\ b.key[2] = chain_id
                              /\ b.status.kind \in {"Pending", "Submitted"}}}

(* C39: every key present in bids, submitted_auctions and opportunities    *)
(* has at least one element, so get_permission_keys_for_auction(chain)     *)
(* returns exactly the permission keys with at least one Pending or        *)
(* Submitted bid on that chain in the index.                               *)
C39_NoEmptyEntries ==
    /\ NoEmptyEntry
    /\ \A chain_id \in ChainIds :
          get_permission_keys_for_auction(chain_id) = KeysWithLiveBids(chain_id)

(* Two bids of different keys were added; one was lost and its key is gone *)
(* from the index, the other key is still there.                           *)
C39_Witness ==
    /\ Len(db_bid) = 2
    /\ \E id \in BidIds : db_bid[id].status = "lost" /\ db_bid[id].key \notin DOMAIN bids
    /\ \E id \in BidIds : db_bid[id].key \in DOMAIN bids
    /\ \A t \in Tasks : IsIdle(t)

----------------------------------------------------------------------------
(* The columns a transition writes, under SpecGuards.                      *)

(* The step is the UPDATE of a transition call of task t.                  *)
TransitionUpdate(t) == IsIdle(t) /\ task'[t].pc = "bbsu_index"

TerminalTransitionFrame ==
    \A t \in Tasks :
        TransitionUpdate(t) =>
            LET id == task'[t].bid.id
                updated_status == task'[t].status
                auction == task'[t].auction IN
            /\ Len(db_bid') = Len(db_bid)
            /\ \A other \in BidIds \ {id} : db_bid'[other] = db_bid[other]
            /\ db_bid'[id].key = db_bid[id].key
            /\ task'[t].rows = 0 => db_bid' = db_bid
            /\ task'[t].rows > 0 /\ updated_status.kind = "Won" =>
                  /\ db_bid[id].status = "submitted"
                  /\ db_bid'[id].status = "won"
                  /\ db_bid'[id].bundle_index = updated_status.index
                  /\ db_bid'[id].auction_id = db_bid[id].auction_id
            /\ (/\ task'[t].rows > 0
                /\ updated_status.kind = "Lost"
                /\ updated_status.index = None) =>
                  /\ db_bid[id].status = "pending"
                  /\ db_bid'[id].status = "lost"
                  /\ db_bid'[id].bundle_index = db_bid[id].bundle_index
                  /\ db_bid'[id].bundle_index = None
                  /\ db_bid'[id].auction_id =
                        IF IsSome(auction) THEN Some(Unwrap(auction).id) ELSE None

(* C40: a successful Submitted -> Won update changes only the bid's status *)
(* and bundle_index and leaves its auction_id as it was; a Pending -> Lost *)
(* update without index leaves the bid's bundle_index null, and without an *)
(* auction leaves auction_id null as well; no transition changes the row   *)
(* of another bid.                                                         *)
C40_TerminalTransitionFrame == [][TerminalTransitionFrame]_vars

(* One bid has won, bound to its auction still, and another was lost       *)
(* without auction and without index.                                      *)
C40_Witness ==
    /\ \E id \in BidIds : db_bid[id].status = "won" /\ IsSome(db_bid[id].auction_id)
    /\ \E id \in BidIds :
          /\ db_bid[id].status = "lost"
          /\ db_bid[id].auction_id = None
          /\ db_bid[id].bundle_index = None

====
